---- MODULE Spec2Model ----
(***************************************************************************)
(* A model of the inbound/outbound message pipeline of ai-digital-brain:   *)
(* the access gate (channels/security.py), the debouncer                   *)
(* (channels/debounce.py), the media processor (channels/media.py), the    *)
(* outbound chunker (channels/chunking.py) and the pipeline orchestrator   *)
(* (channels/pipeline.py).                                                 *)
(*                                                                         *)
(* Text is a sequence of one-character strings, so that strip, rfind,      *)
(* split and join are computed as Python computes them.  Identifiers       *)
(* (channel, chat_id, sender_id) are strings, concatenated with \o as the  *)
(* f-strings of the source concatenate them.                               *)
(***************************************************************************)
EXTENDS Integers, Sequences, FiniteSets, TLC

\* Python's None, for the Optional[str] fields.
NoneVal == "<None>"

----
\* ------------------------------------------------------------ str helpers

NL == "\n"

\* The characters str.strip() removes (the whitespace of the model's alphabet).
Whitespace == {" ", NL, "\t", "\r"}

Max(S) == CHOOSE x \in S : \A y \in S : y <= x

Min(S) == CHOOSE x \in S : \A y \in S : x <= y

\* s.rstrip()
RStrip(s) ==
    LET keep == {i \in 1..Len(s) : s[i] \notin Whitespace}
    IN  IF keep = {} THEN <<>> ELSE SubSeq(s, 1, Max(keep))

\* s without its first character, whatever it is.
DropFirst(s) == IF Len(s) = 0 THEN s ELSE Tail(s)

\* s.lstrip()
LStrip(s) ==
    LET keep == {i \in 1..Len(s) : s[i] \notin Whitespace}
    IN  IF keep = {} THEN <<>> ELSE SubSeq(s, Min(keep), Len(s))

\* s.strip()
Strip(s) == LStrip(RStrip(s))

\* The position a slice index i stands for in a string of length n: counted
\* from the end when negative, and clamped to 0..n.
SliceIndex(i, n) ==
    IF i < 0 THEN (IF n + i < 0 THEN 0 ELSE n + i)
    ELSE IF i > n THEN n ELSE i

\* s[a:b] (Python slice, 0-based, end exclusive).
Slice(s, a, b) ==
    LET lo == SliceIndex(a, Len(s))
        hi == SliceIndex(b, Len(s))
    IN  IF lo >= hi THEN <<>> ELSE SubSeq(s, lo + 1, hi)

\* s.rfind(sep, 0, end): the highest 0-based index at which sep occurs wholly
\* inside s[0:end], or -1.
RFind(s, sep, end) ==
    LET e    == SliceIndex(end, Len(s))
        hits == {i \in 0..(e - Len(sep)) : SubSeq(s, i + 1, i + Len(sep)) = sep}
    IN  IF hits = {} THEN -1 ELSE Max(hits)

\* s.startswith(p)
StartsWith(s, p) == Len(s) >= Len(p) /\ SubSeq(s, 1, Len(p)) = p

\* c * n, for a single character c
Repeat(c, n) == [i \in 1..n |-> c]

RECURSIVE JoinWith(_, _)
\* sep.join(parts)
JoinWith(sep, parts) ==
    IF Len(parts) = 0 THEN <<>>
    ELSE IF Len(parts) = 1 THEN parts[1]
    ELSE parts[1] \o sep \o JoinWith(sep, Tail(parts))

RECURSIVE SplitAt(_, _, _)
SplitAt(s, c, from) ==
    LET hits == {i \in from..Len(s) : s[i] = c}
    IN  IF hits = {} THEN <<SubSeq(s, from, Len(s))>>
        ELSE <<SubSeq(s, from, Min(hits) - 1)>> \o SplitAt(s, c, Min(hits) + 1)

\* s.split(c), for a single character c
Split(s, c) == SplitAt(s, c, 1)

RECURSIVE Flatten(_)
\* The concatenation of a list of lists.
Flatten(ss) == IF Len(ss) = 0 THEN <<>> ELSE ss[1] \o Flatten(Tail(ss))

----
\* --------------------------------------------------- channels/chunking.py

\* _find_break with a separator at index 0 accepted as a break.
FindBreakFromStart(text, limit, sep) ==
    LET idx == RFind(text, sep, limit)
    IN  IF idx >= 0 THEN idx + Len(sep) ELSE -1

\* _find_break
FindBreak(text, limit, sep) ==
    LET idx == RFind(text, sep, limit)
    IN  IF idx > 0 THEN idx + Len(sep) ELSE -1

\* The cut _chunk_plain's loop body chooses for a remainder longer than limit.
PlainCut(remaining, limit) ==
    LET c1 == FindBreak(remaining, limit, <<NL, NL>>)
        c2 == IF c1 = -1 THEN FindBreak(remaining, limit, <<NL>>) ELSE c1
        c3 == IF c2 = -1 THEN FindBreak(remaining, limit, <<" ">>) ELSE c2
    IN  IF c3 = -1 THEN limit ELSE c3

RECURSIVE ChunkPlain(_, _)
\* _chunk_plain
ChunkPlain(remaining, limit) ==
    IF Len(remaining) = 0 THEN <<>>
    ELSE IF Len(remaining) <= limit THEN <<remaining>>
    ELSE LET cut == PlainCut(remaining, limit)
         IN  <<RStrip(Slice(remaining, 0, cut))>>
               \o ChunkPlain(LStrip(Slice(remaining, cut, Len(remaining))), limit)

\* The backtick character (the lexer accepts no backtick inside a string).
Backtick == "bt"

FenceChars == {Backtick, "~"}

\* _CODE_FENCE_RE.match(s).group(1): the run of three or more backticks, or of
\* three or more tildes, that s starts with; <<>> when the regex does not match.
FenceMatch(s) ==
    IF Len(s) = 0 \/ s[1] \notin FenceChars THEN <<>>
    ELSE LET other == {i \in 1..Len(s) : s[i] # s[1]}
             run   == IF other = {} THEN Len(s) ELSE Min(other) - 1
         IN  IF run >= 3 THEN SubSeq(s, 1, run) ELSE <<>>

\* _flush_text_block: blocks with the stripped join of lines appended, if any.
FlushTextBlock(lines, blocks) ==
    LET block == Strip(JoinWith(<<NL>>, lines))
    IN  IF Len(block) > 0 THEN Append(blocks, block) ELSE blocks

\* Whether a line inside a fence closes it (chunking.py lines 148-155):
\* stripped, it consists of the fence character only.
ClosesFence(line, fence_pattern) ==
    LET stripped == Strip(line)
    IN  /\ StartsWith(stripped, <<fence_pattern>>)
        /\ Len(stripped) >= 1
        /\ stripped = Repeat(fence_pattern, Len(stripped))

RECURSIVE BlocksLoop(_, _, _, _, _, _)
\* The loop of _split_into_blocks from line i on, and its epilogue.
BlocksLoop(lines, i, blocks, current_lines, in_fence, fence_pattern) ==
    IF i > Len(lines)
    THEN IF Len(current_lines) > 0
         THEN FlushTextBlock(
                  IF in_fence
                      THEN Append(current_lines, Repeat(fence_pattern, 3))
                      ELSE current_lines,
                  blocks)
         ELSE blocks
    ELSE LET line == lines[i]
             fm   == FenceMatch(line)
         IN  IF Len(fm) > 0 /\ ~in_fence
             THEN BlocksLoop(lines, i + 1,
                      IF Len(current_lines) > 0
                          THEN FlushTextBlock(current_lines, blocks) ELSE blocks,
                      <<line>>, TRUE, fm[1])
             ELSE IF in_fence /\ StartsWith(Strip(line), <<fence_pattern>>)
             THEN IF ClosesFence(line, fence_pattern)
                  THEN BlocksLoop(lines, i + 1,
                           Append(blocks,
                                  JoinWith(<<NL>>, Append(current_lines, line))),
                           <<>>, FALSE, fence_pattern)
                  ELSE BlocksLoop(lines, i + 1, blocks,
                           Append(current_lines, line), in_fence, fence_pattern)
             ELSE IF in_fence
             THEN BlocksLoop(lines, i + 1, blocks,
                      Append(current_lines, line), in_fence, fence_pattern)
             ELSE IF Len(Strip(line)) = 0
             THEN BlocksLoop(lines, i + 1,
                      IF Len(current_lines) > 0
                          THEN FlushTextBlock(current_lines, blocks) ELSE blocks,
                      <<>>, in_fence, fence_pattern)
             ELSE BlocksLoop(lines, i + 1, blocks,
                      Append(current_lines, line), in_fence, fence_pattern)

\* _split_into_blocks
SplitIntoBlocks(text) == BlocksLoop(Split(text, NL), 1, <<>>, <<>>, FALSE, "")

\* The floor _split_oversized_block puts under inner_limit.
MinInnerLimit == 100

\* The "2 newlines + margin" _split_oversized_block reserves.
FenceMargin == 4

\* inner_limit without the floor of 100.
InnerLimitUnclamped(limit, header, fence) ==
    limit - Len(header) - Len(fence) - FenceMargin

\* _split_oversized_block, lines 211-213: inner_limit
InnerLimit(limit, header, fence) ==
    LET raw_limit == limit - Len(header) - Len(fence) - FenceMargin
    IN  IF raw_limit < MinInnerLimit THEN MinInnerLimit ELSE raw_limit

\* _split_oversized_block, lines 200-209: the body of a code block
BlockBody(block, fence) ==
    LET lines      == Split(block, NL)
        last       == lines[Len(lines)]
        body_lines == IF StartsWith(Strip(last), <<fence[1]>>)
                          THEN SubSeq(lines, 2, Len(lines) - 1)
                          ELSE SubSeq(lines, 2, Len(lines))
    IN  JoinWith(<<NL>>, body_lines)

\* _split_oversized_block
SplitOversizedBlock(block, limit) ==
    LET fence == FenceMatch(block)
    IN  IF Len(fence) = 0 THEN ChunkPlain(block, limit)
        ELSE LET header      == Split(block, NL)[1]
                 body        == BlockBody(block, fence)
                 inner       == InnerLimit(limit, header, fence)
                 body_chunks == ChunkPlain(body, inner)
             IN  [k \in 1..Len(body_chunks) |->
                      header \o <<NL>> \o body_chunks[k] \o <<NL>> \o fence]

\* The fragments of an oversized block appended as they are, however long.
SubsAppended(subs, k, limit, chunks) == chunks \o subs

RECURSIVE SubsLoop(_, _, _, _)
\* The inner loop of _chunk_markdown (lines 111-116) over the fragments of an
\* oversized block.
SubsLoop(subs, k, limit, chunks) ==
    IF k > Len(subs) THEN chunks
    ELSE SubsLoop(subs, k + 1, limit,
                  IF Len(subs[k]) <= limit
                      THEN Append(chunks, subs[k])
                      ELSE chunks \o ChunkPlain(subs[k], limit))

RECURSIVE MarkdownLoop(_, _, _, _, _)
\* The loop of _chunk_markdown from block i on, and its epilogue.
MarkdownLoop(blocks, i, limit, chunks, current) ==
    IF i > Len(blocks)
    THEN IF Len(current) > 0 THEN Append(chunks, current) ELSE chunks
    ELSE LET block     == blocks[i]
             candidate == IF Len(current) > 0
                              THEN Strip(current \o <<NL, NL>> \o block)
                              ELSE block
             flushed   == IF Len(current) > 0
                              THEN Append(chunks, current) ELSE chunks
         IN  IF Len(candidate) <= limit
             THEN MarkdownLoop(blocks, i + 1, limit, chunks, candidate)
             ELSE IF Len(block) <= limit
             THEN MarkdownLoop(blocks, i + 1, limit, flushed, block)
             ELSE MarkdownLoop(blocks, i + 1, limit,
                      SubsLoop(SplitOversizedBlock(block, limit), 1, limit, flushed),
                      <<>>)

\* _chunk_markdown
ChunkMarkdown(text, limit) ==
    MarkdownLoop(SplitIntoBlocks(text), 1, limit, <<>>, <<>>)

\* chunk_text without its two early returns.
ChunkByMode(text, limit, mode) ==
    IF mode = "markdown" THEN ChunkMarkdown(text, limit)
    ELSE ChunkPlain(text, limit)

\* chunk_text
chunk_text(text, limit, mode) ==
    IF Len(text) = 0 THEN <<>>
    ELSE IF Len(text) <= limit THEN <<text>>
    ELSE IF mode = "markdown" THEN ChunkMarkdown(text, limit)
    ELSE ChunkPlain(text, limit)

----
\* ------------------------------------------------------- channels/base.py

\* MediaAttachment.  A MIME type is a sequence of tokens, file_size is NoSize
\* when unknown (None).
NoSize == -1

Attachment(type, mime_type, file_id, file_size) ==
    [type |-> type, mime_type |-> mime_type, file_id |-> file_id,
     file_size |-> file_size]

\* InboundMessage.  raw, the opaque payload, carries the sequence number of
\* the update the message was built from.
InboundMessage(channel, chat_id, sender_id, sender_name, text, media, reply_to_id, thread_id, raw) ==
    [channel |-> channel, chat_id |-> chat_id, sender_id |-> sender_id,
     sender_name |-> sender_name, text |-> text, media |-> media,
     reply_to_id |-> reply_to_id, thread_id |-> thread_id, raw |-> raw]

----
\* --------------------------------------------------- channels/debounce.py

\* InboundDebouncer._build_key
BuildKey(msg) == msg.channel \o ":" \o msg.chat_id \o ":" \o msg.sender_id

RECURSIVE AllTextsOf(_)
\* [m.text for m in messages]: the list without the "if m.text" filter.
AllTextsOf(messages) ==
    IF Len(messages) = 0 THEN <<>>
    ELSE <<messages[1].text>> \o AllTextsOf(Tail(messages))

RECURSIVE TextsOf(_)
\* [m.text for m in messages if m.text]
TextsOf(messages) ==
    IF Len(messages) = 0 THEN <<>>
    ELSE (IF Len(messages[1].text) > 0 THEN <<messages[1].text>> ELSE <<>>)
             \o TextsOf(Tail(messages))

\* combined_text of _coalesce
CombinedText(messages) == JoinWith(<<NL>>, TextsOf(messages))

RECURSIVE CombinedMedia(_)
\* combined_media of _coalesce
CombinedMedia(messages) ==
    IF Len(messages) = 0 THEN <<>>
    ELSE messages[1].media \o CombinedMedia(Tail(messages))

\* The message _coalesce takes the metadata from.
MetaSource(messages) == messages[Len(messages)]

\* InboundDebouncer._coalesce
Coalesce(messages) ==
    LET last == MetaSource(messages)
    IN  InboundMessage(last.channel, last.chat_id, last.sender_id,
                       last.sender_name, CombinedText(messages),
                       CombinedMedia(messages), last.reply_to_id,
                       last.thread_id, last.raw)

----
\* --------------------------------------------------- channels/security.py

\* DmPolicyEnforcer._scoped_id
ScopedId(channel, sender_id) == channel \o ":" \o sender_id

\* A check_access that looks at the allow-set before the mode.
CheckAccessResultListFirst(pol, allowed, channel, sender_id) ==
    IF ScopedId(channel, sender_id) \in allowed THEN <<TRUE, "ok">>
    ELSE IF pol = "disabled" THEN <<FALSE, "dm_disabled">>
    ELSE IF pol = "open" THEN <<TRUE, "ok">>
    ELSE <<FALSE, "awaiting_pairing">>

\* The (allowed, reason) pair check_access returns.
CheckAccessResult(pol, allowed, channel, sender_id) ==
    IF pol = "disabled" THEN <<FALSE, "dm_disabled">>
    ELSE IF pol = "open" THEN <<TRUE, "ok">>
    ELSE IF ScopedId(channel, sender_id) \in allowed THEN <<TRUE, "ok">>
    ELSE <<FALSE, "awaiting_pairing">>

\* A check_access that records every sender it sees in pairing mode.
CheckAccessPendingAnySender(pol, allowed, pend, channel, sender_id) ==
    IF pol = "pairing"
        THEN pend \cup {ScopedId(channel, sender_id)}
        ELSE pend

\* The pending set check_access leaves.
CheckAccessPending(pol, allowed, pend, channel, sender_id) ==
    IF pol = "pairing" /\ ScopedId(channel, sender_id) \notin allowed
        THEN pend \cup {ScopedId(channel, sender_id)}
        ELSE pend

----
\* ------------------------------------------------------ channels/media.py

RECURSIVE FnMatch(_, _)
\* fnmatch.fnmatch(name, pattern) over token sequences: "*" matches any run
\* of tokens, "?" any one token, every other token itself.
FnMatch(name, pat) ==
    IF Len(pat) = 0 THEN Len(name) = 0
    ELSE IF pat[1] = "*"
        THEN \E k \in 0..Len(name) :
                 FnMatch(SubSeq(name, k + 1, Len(name)), Tail(pat))
    ELSE /\ Len(name) > 0
         /\ (pat[1] = "?" \/ pat[1] = name[1])
         /\ FnMatch(Tail(name), Tail(pat))

\* DEFAULT_ALLOWED_TYPES
DefaultAllowedTypes ==
    << <<"image", "/", "*">>, <<"audio", "/", "*">>, <<"video", "/", "*">>,
       <<"application", "/", "pdf">> >>

\* MediaProcessor._is_mime_allowed
IsMimeAllowed(allowed_types, mime_type) ==
    \E k \in 1..Len(allowed_types) : FnMatch(mime_type, allowed_types[k])

\* validate rejecting an attachment whose size is not known.
ValidateNeedsSize(allowed_types, max_size, att) ==
    /\ IsMimeAllowed(allowed_types, att.mime_type)
    /\ att.file_size # NoSize
    /\ att.file_size <= max_size

\* MediaProcessor.validate: TRUE when it returns, FALSE when it raises
\* MediaValidationError.
Validate(allowed_types, max_size, att) ==
    /\ IsMimeAllowed(allowed_types, att.mime_type)
    /\ ~(att.file_size # NoSize /\ att.file_size > max_size)

\* What the adapter's download_file does for one attachment: it raises, or it
\* returns size bytes and a MIME type.
DownloadRaises == [raises |-> TRUE, size |-> 0, mime_type |-> <<>>]

DownloadReturns(size, mime_type) ==
    [raises |-> FALSE, size |-> size, mime_type |-> mime_type]

\* MediaProcessor.download: "ok" when it returns (data, mime_type),
\* "rejected" when it raises MediaValidationError, "error" when the adapter's
\* exception propagates.
DownloadResult(allowed_types, max_size, att, outcome) ==
    IF ~Validate(allowed_types, max_size, att) THEN "rejected"
    ELSE IF outcome.raises THEN "error"
    ELSE IF outcome.size > max_size THEN "rejected"
    ELSE "ok"

\* MediaProcessor.to_adk_part: Part.from_bytes(data, mime_type), the data
\* kept by its length.
ToAdkPart(size, mime_type) == [size |-> size, mime_type |-> mime_type]

RECURSIVE ProcessAttachments(_, _, _, _)
\* MediaProcessor.process_attachments, the adapter answering outcomes[k] for
\* the k-th attachment it is asked for.
ProcessAttachments(allowed_types, max_size, attachments, outcomes) ==
    IF Len(attachments) = 0 THEN <<>>
    ELSE (IF DownloadResult(allowed_types, max_size,
                            attachments[1], outcomes[1]) = "ok"
              THEN <<ToAdkPart(outcomes[1].size, outcomes[1].mime_type)>>
              ELSE <<>>)
           \o ProcessAttachments(allowed_types, max_size,
                                 Tail(attachments), Tail(outcomes))

----
\* --------------------------------------------------- channels/pipeline.py

\* The fixed reply _handle_after_debounce substitutes when dispatch fails
\* (the two accented letters written without their accents).
Apology ==
    <<"M", "i", " ", "d", "i", "s", "p", "i", "a", "c", "e", ",", " ",
    "s", "i", " ", "e", " ", "v", "e", "r", "i", "f", "i", "c", "a", "t",
    "o", " ", "u", "n", " ", "e", "r", "r", "o", "r", "e", ".", " ", "R",
    "i", "p", "r", "o", "v", "a", " ", "p", "i", "u", " ", "t", "a", "r",
    "d", "i", ".">>

\* The default of InboundPipeline's chunk_limit.
DefaultChunkLimit == 4096

\* The default of InboundPipeline's chunk_mode.
DefaultChunkMode == "markdown"

----
\* ------------------------------------------------------------- the model

\* Bounds of the model.
MaxUpdates == 2

MaxDebUpdates == 3

MaxTgUpdates == 2

MaxAdminCalls == 1

DebounceTicks == 2

SmallChunkLimit == 40

MaxFileSize == 2

\* The one adapter of the repository: TelegramChannel.channel_id().
Channel == "telegram"

Chats == {"c1"}

Senders == {"alice", "bob"}

ImagePng == <<"image", "/", "png">>

\* The attachment a media-bearing update of the model carries.
Photo == Attachment("image", ImagePng, "f1", 1)

\* What download_file may answer in the model.
DownloadOutcomes == {DownloadRaises, DownloadReturns(1, ImagePng)}

\* The chunk_limit values a pipeline of the model is constructed with.
ChunkLimits == {SmallChunkLimit, DefaultChunkLimit}

\* A response of one chunk under DefaultChunkLimit, of two under
\* SmallChunkLimit.
LongResponse == Repeat("x", SmallChunkLimit + 1)

\* What dispatch_fn may do: raise, or return one of these texts.
Responses == {<<>>, LongResponse}

DispatchRaises == [raises |-> TRUE, text |-> <<>>]

DispatchReturns(text) == [raises |-> FALSE, text |-> text]

DispatchOutcomes == {DispatchRaises} \cup {DispatchReturns(r) : r \in Responses}

\* What send_text may do: return success, return success=False, or raise.
SendOutcomes == {"ok", "failed", "raised"}

VARIABLES
    policy,        \* DmPolicyEnforcer._policy
    allow_from,    \* DmPolicyEnforcer._allow_from
    pending,       \* DmPolicyEnforcer._pending
    admin_calls,   \* the number of approve/deny/revoke calls so far
    sec_log,       \* the calls made on the enforcer's methods, with their effect
    chunk_limit,   \* InboundPipeline._chunk_limit
    has_resolver,  \* InboundPipeline._resolve_user_id is not None
    channels,      \* the keys of InboundPipeline._channels
    buffer,        \* InboundDebouncer._buffer, in insertion order
    timers,        \* the loop.call_later handles enqueue created
    ready,         \* the flush tasks ensure_future scheduled, not yet run
    fa,            \* the flush_all call
    h,             \* the invocations of _handle_after_debounce
    gate,          \* per update, the reason check_access returned
    enq,           \* the updates handed to InboundDebouncer.enqueue
    burst,         \* per enqueued update, the first update of its burst
    ident,         \* per enqueued update, its (channel, chat_id, sender_id)
    nextId,        \* the sequence number of the next update
    co_in,         \* _coalesce's argument (the coalescing specification)
    co_out,        \* _coalesce's result, once applied
    ck_in,         \* chunk_text's arguments (the chunking specification)
    ck_out,        \* chunk_text's result, once applied
    mproc,         \* the MediaProcessor's fields (the media specification)
    pa,            \* the process_attachments call
    mgb,           \* the MediaGroupBuffer (the media group specification)
    lp,            \* one run of _chunk_plain's loop (the loop specification)
    tg             \* the TelegramChannel's update handler (the wiring specification)

secVars == <<policy, allow_from, pending, admin_calls, sec_log>>

cfgVars == <<chunk_limit, has_resolver>>

debVars == <<buffer, timers, ready>>

histVars == <<gate, enq, burst, ident, nextId>>

pipeVars == <<secVars, cfgVars, channels, debVars, fa, h, histVars>>

coVars == <<co_in, co_out>>

ckVars == <<ck_in, ck_out>>

mdVars == <<mproc, pa>>

\* The variables of the specifications of the pure functions.
fnVars == <<coVars, ckVars, mdVars, mgb, lp, tg>>

vars == <<pipeVars, fnVars>>

Ids == 1..Max({MaxUpdates, MaxDebUpdates, MaxTgUpdates})

\* The text of the n-th update: its number.
UpdateText(n) == <<ToString(n)>>

\* reply_to_id of the n-th update: the first replies to nothing, every later
\* one to a message of the chat.
ReplyTarget(n) == IF n = 1 THEN NoneVal ELSE "m" \o ToString(n)

NoMsg == InboundMessage("", "", "", "", <<>>, <<>>, NoneVal, NoneVal, 0)

\* A handle: state is "none" (not created), "live" (scheduled), "fired" (its
\* callback has run) or "cancelled"; left is the time until it is due.
NoTimer == [state |-> "none", key |-> "", left |-> 0]

\* An invocation: pc is "none", "resolve" (awaiting process_attachments or
\* the resolver), "dispatch" (awaiting dispatch_fn), "send" (in
\* _send_response), "done" (returned) or "raised" (left by an exception).
NoHandler ==
    [pc |-> "none", origin |-> "", msg |-> NoMsg, ids |-> <<>>,
     calls |-> <<>>, dispatch |-> "", response |-> <<>>, chunks |-> <<>>,
     sends |-> <<>>]

\* flush_all is between its call and its return.
FaActive == fa.pc \in {"await", "loop"}

\* The position of key in the buffer, 0 when it has no entry.
BufIndex(buf, key) ==
    LET hits == {k \in 1..Len(buf) : buf[k].key = key}
    IN  IF hits = {} THEN 0 ELSE Min(hits)

\* dict.pop(key): the buffer without its k-th entry.
BufRemove(buf, k) == SubSeq(buf, 1, k - 1) \o SubSeq(buf, k + 1, Len(buf))

\* timer.cancel(): no effect on a handle that has already run.
Cancel(tm, t) ==
    IF t # 0 /\ tm[t].state = "live"
        THEN [tm EXCEPT ![t].state = "cancelled", ![t].left = 0]
        ELSE tm

RECURSIVE RawsOf(_)
\* The sequence numbers of a list of messages.
RawsOf(messages) ==
    IF Len(messages) = 0 THEN <<>>
    ELSE <<messages[1].raw>> \o RawsOf(Tail(messages))

\* The sequence numbers of the messages the buffer holds.
BufferedIds ==
    UNION {{buffer[k].messages[n].raw : n \in 1..Len(buffer[k].messages)} :
               k \in 1..Len(buffer)}

\* user_id when no resolver is supplied: f"{cid}_{message.sender_id}"
DefaultUserId(cid, sender_id) == cid \o "_" \o sender_id

\* user_id from the resolver the application wires: TelegramUserMapper.resolve
ResolvedUserId(cid, sender_id) == "tg_" \o sender_id

\* The arguments _handle_after_debounce gives dispatch_fn.
DispatchCall(user_id, msg, parts) ==
    [user_id |-> user_id, text |-> msg.text, media_parts |-> parts]

\* Whether _handle_after_debounce(msg) awaits a collaborator before it calls
\* dispatch_fn: process_attachments (line 105) or the resolver (line 109).
AwaitsBeforeDispatch(msg, chans, resolver) ==
    (Len(msg.media) > 0 /\ msg.channel \in chans) \/ resolver

\* A new invocation of _handle_after_debounce(msg), named by msg.raw, run up
\* to its first await: of process_attachments or the resolver ("resolve"),
\* or else of dispatch_fn ("dispatch").
StartHandler(hs, msg, ids, origin, chans, resolver) ==
    [hs EXCEPT ![msg.raw] =
        IF AwaitsBeforeDispatch(msg, chans, resolver)
            THEN [NoHandler EXCEPT !.pc = "resolve", !.origin = origin,
                                   !.msg = msg, !.ids = ids]
            ELSE [NoHandler EXCEPT !.pc = "dispatch", !.origin = origin,
                                   !.msg = msg, !.ids = ids,
                                   !.calls =
                                       <<DispatchCall(
                                             DefaultUserId(msg.channel,
                                                           msg.sender_id),
                                             msg, <<>>)>>]]

\* An enqueue that keeps only the latest message of a key.
EnqueueBufferLatest(buf, msg) ==
    LET key == BuildKey(msg)
        k   == BufIndex(buf, key)
    IN  IF k = 0
            THEN Append(buf, [key |-> key, messages |-> <<msg>>,
                              timer |-> msg.raw])
            ELSE [buf EXCEPT ![k].messages = <<msg>>,
                             ![k].timer = msg.raw]

\* InboundDebouncer.enqueue: the buffer it leaves.
EnqueueBuffer(buf, msg) ==
    LET key == BuildKey(msg)
        k   == BufIndex(buf, key)
    IN  IF k = 0
            THEN Append(buf, [key |-> key, messages |-> <<msg>>,
                              timer |-> msg.raw])
            ELSE [buf EXCEPT ![k].messages = Append(@, msg),
                             ![k].timer = msg.raw]

\* InboundDebouncer.enqueue: the handles it leaves (the entry's handle is
\* cancelled when the key has an entry; a new handle is scheduled).
EnqueueTimers(tm, buf, msg) ==
    LET key == BuildKey(msg)
        k   == BufIndex(buf, key)
        old == IF k = 0 THEN tm ELSE Cancel(tm, buf[k].timer)
    IN  [old EXCEPT ![msg.raw] =
            [state |-> "live", key |-> key, left |-> DebounceTicks]]

\* The first update of the burst that update n, carrying msg, belongs to: that
\* of the latest earlier update of the same key when the handle that one
\* scheduled is still pending (the debounce delay after it has not run out,
\* as far as the loop has seen), and n itself otherwise.
BurstOf(msg, n) ==
    LET same == {j \in enq : timers[j].key = BuildKey(msg)}
    IN  IF same = {} THEN n
        ELSE LET p == Max(same)
             IN  IF timers[p].state = "live" THEN burst[p] ELSE n

\* A gate whose verdict process would ignore.
AdmittedAlways(res) == TRUE

\* pipeline.py line 82: whether process goes on after check_access.
Admitted(res) == res[1]

\* pipeline.py line 93: whether process hands the message to the debouncer.
Debounced(msg) == Len(msg.media) = 0

\* The state after construction, for the given constructor arguments.
Constructed(policies, allow_lists, limits, resolver) ==
    /\ policy \in policies
    /\ allow_from \in allow_lists
    /\ pending = {}
    /\ admin_calls = 0
    /\ sec_log = <<>>
    /\ chunk_limit \in limits
    /\ has_resolver = resolver
    /\ channels = {}
    /\ buffer = <<>>
    /\ timers = [t \in Ids |-> NoTimer]
    /\ ready = <<>>
    /\ fa = [pc |-> "idle", keys |-> <<>>, ids |-> {}, live |-> {}]
    /\ h = [i \in Ids |-> NoHandler]
    /\ gate = [i \in Ids |-> ""]
    /\ enq = {}
    /\ burst = [i \in Ids |-> 0]
    /\ ident = [i \in Ids |-> <<>>]
    /\ nextId = 1

\* The variables of the pure functions' specifications, at rest.
FnIdle ==
    /\ co_in = <<>>
    /\ co_out = <<>>
    /\ ck_in = <<>>
    /\ ck_out = <<>>
    /\ mproc = <<>>
    /\ pa = <<>>
    /\ mgb = <<>>
    /\ lp = <<>>
    /\ tg = <<>>

Init ==
    /\ Constructed({"open", "pairing", "disabled"},
                   {{}, {ScopedId(Channel, "alice")}}, ChunkLimits, TRUE)
    /\ FnIdle

\* InboundPipeline.process(channel, message): what it does to the pipeline.
ProcessMessage(sender, chat, text, media, reply_to) ==
    LET msg == InboundMessage(Channel, chat, sender, sender, text, media,
                              reply_to, NoneVal, nextId)
        cid == Channel
        res == CheckAccessResult(policy, allow_from, cid, msg.sender_id)
    IN  /\ channels' = channels \cup {cid}
        /\ pending' = CheckAccessPending(policy, allow_from, pending,
                                         cid, msg.sender_id)
        /\ gate' = [gate EXCEPT ![nextId] = res[2]]
        /\ nextId' = nextId + 1
        /\ IF ~Admitted(res)
               THEN UNCHANGED <<buffer, timers, h, enq, burst, ident>>
           ELSE IF Debounced(msg)
               THEN /\ buffer' = EnqueueBuffer(buffer, msg)
                    /\ timers' = EnqueueTimers(timers, buffer, msg)
                    /\ enq' = enq \cup {nextId}
                    /\ burst' = [burst EXCEPT ![nextId] = BurstOf(msg, nextId)]
                    /\ ident' = [ident EXCEPT ![nextId] =
                                     <<msg.channel, msg.chat_id, msg.sender_id>>]
                    /\ UNCHANGED h
           ELSE /\ h' = StartHandler(h, msg, <<nextId>>, "process",
                                     channels', has_resolver)
                /\ UNCHANGED <<buffer, timers, enq, burst, ident>>
        /\ UNCHANGED <<policy, allow_from, admin_calls, sec_log, cfgVars, ready,
                       fa>>

\* InboundPipeline.process(channel, message), called on the pipeline itself.
Process(sender, chat, text, media, reply_to) ==
    /\ ProcessMessage(sender, chat, text, media, reply_to)
    /\ UNCHANGED fnVars

\* The record of one call on the enforcer: the method, its arguments, what it
\* returned (check_access only) and the two sets before and after it.
SecCall(op, channel, sender_id, result, allow_after, pending_after) ==
    [op |-> op, channel |-> channel, sender_id |-> sender_id,
     result |-> result,
     allow_before |-> allow_from, pending_before |-> pending,
     allow_after |-> allow_after, pending_after |-> pending_after]

\* DmPolicyEnforcer.check_access, called on the enforcer itself
CheckAccess(channel, sender_id) ==
    /\ pending' = CheckAccessPending(policy, allow_from, pending,
                                     channel, sender_id)
    /\ sec_log' = Append(sec_log,
                         SecCall("check_access", channel, sender_id,
                                 CheckAccessResult(policy, allow_from,
                                                   channel, sender_id),
                                 allow_from, pending'))
    /\ UNCHANGED <<policy, allow_from, admin_calls, cfgVars, channels, debVars,
                   fa, h, histVars, fnVars>>

\* An approve that leaves the sender in the pending set.
ApproveKeepsPending(channel, sender_id) ==
    /\ admin_calls' = admin_calls + 1
    /\ allow_from' = allow_from \cup {ScopedId(channel, sender_id)}
    /\ sec_log' = Append(sec_log, SecCall("approve", channel, sender_id,
                                          NoneVal, allow_from', pending))
    /\ UNCHANGED <<policy, pending, cfgVars, channels, debVars, fa, h,
                   histVars, fnVars>>

\* DmPolicyEnforcer.approve
Approve(channel, sender_id) ==
    /\ admin_calls' = admin_calls + 1
    /\ pending' = pending \ {ScopedId(channel, sender_id)}
    /\ allow_from' = allow_from \cup {ScopedId(channel, sender_id)}
    /\ sec_log' = Append(sec_log, SecCall("approve", channel, sender_id,
                                          NoneVal, allow_from', pending'))
    /\ UNCHANGED <<policy, cfgVars, channels, debVars, fa, h, histVars,
                   fnVars>>

\* A deny that also takes the sender off the allow-set.
DenyAndRevoke(channel, sender_id) ==
    /\ admin_calls' = admin_calls + 1
    /\ pending' = pending \ {ScopedId(channel, sender_id)}
    /\ allow_from' = allow_from \ {ScopedId(channel, sender_id)}
    /\ sec_log' = Append(sec_log, SecCall("deny", channel, sender_id,
                                          NoneVal, allow_from', pending'))
    /\ UNCHANGED <<policy, cfgVars, channels, debVars, fa, h, histVars,
                   fnVars>>

\* DmPolicyEnforcer.deny
Deny(channel, sender_id) ==
    /\ admin_calls' = admin_calls + 1
    /\ pending' = pending \ {ScopedId(channel, sender_id)}
    /\ sec_log' = Append(sec_log, SecCall("deny", channel, sender_id,
                                          NoneVal, allow_from, pending'))
    /\ UNCHANGED <<policy, allow_from, cfgVars, channels, debVars, fa, h,
                   histVars, fnVars>>

\* DmPolicyEnforcer.revoke
Revoke(channel, sender_id) ==
    /\ admin_calls' = admin_calls + 1
    /\ allow_from' = allow_from \ {ScopedId(channel, sender_id)}
    /\ sec_log' = Append(sec_log, SecCall("revoke", channel, sender_id,
                                          NoneVal, allow_from', pending))
    /\ UNCHANGED <<policy, pending, cfgVars, channels, debVars, fa, h,
                   histVars, fnVars>>

\* One unit of time passes: every pending handle is one tick nearer to due.
Tick ==
    /\ \E t \in Ids : timers[t].state = "live" /\ timers[t].left > 0
    /\ timers' = [t \in Ids |->
                     IF timers[t].state = "live" /\ timers[t].left > 0
                         THEN [timers[t] EXCEPT !.left = @ - 1]
                         ELSE timers[t]]
    /\ UNCHANGED <<secVars, cfgVars, channels, buffer, ready, fa, h, histVars,
                   fnVars>>

\* A due handle runs its callback: asyncio.ensure_future(self._flush(k)).
TimerFire(t) ==
    /\ timers[t].state = "live"
    /\ timers[t].left = 0
    /\ timers' = [timers EXCEPT ![t].state = "fired"]
    /\ ready' = Append(ready, timers[t].key)
    /\ UNCHANGED <<secVars, cfgVars, channels, buffer, fa, h, histVars, fnVars>>

\* _flush behind a lock shared by all keys: it waits while any invocation of
\* the flush callback is under way.
FlushTaskRunLocked ==
    /\ \A i \in Ids : h[i].pc \notin {"resolve", "dispatch", "send"}
    /\ Len(ready) > 0
    /\ ready' = Tail(ready)
    /\ LET k == BufIndex(buffer, Head(ready))
       IN  IF k = 0 \/ Len(buffer[k].messages) = 0
               THEN UNCHANGED <<buffer, h>>
               ELSE /\ buffer' = BufRemove(buffer, k)
                    /\ h' = StartHandler(h, Coalesce(buffer[k].messages),
                                         RawsOf(buffer[k].messages), "timer",
                                         channels, has_resolver)
    /\ UNCHANGED <<secVars, cfgVars, channels, timers, fa, histVars, fnVars>>

\* The task of a fired handle runs InboundDebouncer._flush(key) up to its
\* await of on_flush.
FlushTaskRun ==
    /\ Len(ready) > 0
    /\ ready' = Tail(ready)
    /\ LET k == BufIndex(buffer, Head(ready))
       IN  IF k = 0 \/ Len(buffer[k].messages) = 0
               THEN UNCHANGED <<buffer, h>>
               ELSE /\ buffer' = BufRemove(buffer, k)
                    /\ h' = StartHandler(h, Coalesce(buffer[k].messages),
                                         RawsOf(buffer[k].messages), "timer",
                                         channels, has_resolver)
    /\ UNCHANGED <<secVars, cfgVars, channels, timers, fa, histVars, fnVars>>

RECURSIVE SkipAbsent(_, _)
\* The keys of flush_all's loop from the first that still has an entry on:
\* for a key without entry, _flush returns at once.
SkipAbsent(keys, buf) ==
    IF Len(keys) = 0 \/ BufIndex(buf, Head(keys)) # 0 THEN keys
    ELSE SkipAbsent(Tail(keys), buf)

\* flush_all's loop from keys on, up to its next await of on_flush or its
\* return.  f is the record of the call.
FlushAllRun(f, keys) ==
    LET rest == SkipAbsent(keys, buffer)
    IN  IF Len(rest) = 0
            THEN /\ fa' = [f EXCEPT !.pc = "done", !.keys = <<>>]
                 /\ UNCHANGED <<buffer, timers, h>>
            ELSE LET k == BufIndex(buffer, Head(rest))
                 IN  /\ timers' = Cancel(timers, buffer[k].timer)
                     /\ buffer' = BufRemove(buffer, k)
                     /\ h' = StartHandler(h, Coalesce(buffer[k].messages),
                                          RawsOf(buffer[k].messages),
                                          "flush_all", channels, has_resolver)
                     /\ fa' = [f EXCEPT !.pc = "await", !.keys = Tail(rest)]

\* InboundDebouncer.flush_all is called.  The record of the call keeps what
\* was buffered and which handles were pending at that moment.
FlushAllCall ==
    /\ fa.pc = "idle"
    /\ FlushAllRun([fa EXCEPT !.ids = BufferedIds,
                              !.live = {t \in Ids : timers[t].state = "live"}],
                   [k \in 1..Len(buffer) |-> buffer[k].key])
    /\ UNCHANGED <<secVars, cfgVars, channels, ready, histVars, fnVars>>

\* flush_all goes on after the on_flush it awaited has returned.
FlushAllResume ==
    /\ fa.pc = "loop"
    /\ FlushAllRun(fa, fa.keys)
    /\ UNCHANGED <<secVars, cfgVars, channels, ready, histVars, fnVars>>

\* What the end of invocation i means for flush_all, when it awaits it.
FaAfter(i, raised) ==
    IF h[i].origin = "flush_all"
        THEN [fa EXCEPT !.pc = IF raised THEN "raised" ELSE "loop"]
        ELSE fa

\* _handle_after_debounce, steps 3 and 4 and the call of dispatch_fn.
HandlerResolve(i, outcomes, resolver_raises) ==
    /\ h[i].pc = "resolve"
    /\ LET msg   == h[i].msg
           cid   == msg.channel
           parts == IF Len(msg.media) > 0 /\ cid \in channels
                        THEN ProcessAttachments(DefaultAllowedTypes,
                                                MaxFileSize, msg.media, outcomes)
                        ELSE <<>>
           user  == IF has_resolver THEN ResolvedUserId(cid, msg.sender_id)
                                    ELSE DefaultUserId(cid, msg.sender_id)
       IN  IF has_resolver /\ resolver_raises
               THEN /\ h' = [h EXCEPT ![i].pc = "raised"]
                    /\ fa' = FaAfter(i, TRUE)
               ELSE /\ h' = [h EXCEPT ![i].pc = "dispatch",
                                      ![i].calls =
                                          <<DispatchCall(user, msg, parts)>>]
                    /\ UNCHANGED fa
    /\ UNCHANGED <<secVars, cfgVars, channels, debVars, histVars, fnVars>>

\* A response_text without the except branch's fallback.
ResponseTextRaw(outcome) == outcome.text

\* response_text of _handle_after_debounce (lines 116-124).
ResponseText(outcome) == IF outcome.raises THEN Apology ELSE outcome.text

\* _handle_after_debounce from the return of dispatch_fn on, and
\* _send_response up to its first send_text.
HandlerDispatched(i, outcome) ==
    /\ h[i].pc = "dispatch"
    /\ \E response \in {ResponseText(outcome)} :
       \E chunks \in {IF h[i].msg.channel \in channels
                          THEN chunk_text(response, chunk_limit,
                                          DefaultChunkMode)
                          ELSE <<>>} :
           /\ h' = [h EXCEPT ![i].dispatch = IF outcome.raises THEN "raised"
                                                                ELSE "returned",
                             ![i].response = response,
                             ![i].chunks = chunks,
                             ![i].pc = IF Len(chunks) = 0 THEN "done"
                                                          ELSE "send"]
           /\ fa' = IF Len(chunks) = 0 THEN FaAfter(i, FALSE) ELSE fa
    /\ UNCHANGED <<secVars, cfgVars, channels, debVars, histVars, fnVars>>

\* The keyword arguments _send_response gives send_text for a chunk.
SendCall(original, chunk) ==
    [to |-> original.chat_id, text |-> chunk,
     reply_to_id |-> original.reply_to_id, thread_id |-> original.thread_id]

\* A loop that a failed send_text call ends.
HandlerSendAborting(i, outcome) ==
    /\ h[i].pc = "send"
    /\ LET n    == Len(h[i].sends) + 1
           call == SendCall(h[i].msg, h[i].chunks[n])
           last == n = Len(h[i].chunks) \/ outcome # "ok"
       IN  /\ h' = [h EXCEPT ![i].sends =
                                 Append(@, [call |-> call,
                                            ok |-> outcome = "ok"]),
                             ![i].pc = IF last THEN "done" ELSE "send"]
           /\ fa' = IF last THEN FaAfter(i, FALSE) ELSE fa
    /\ UNCHANGED <<secVars, cfgVars, channels, debVars, histVars, fnVars>>

\* One turn of _send_response's loop: a send_text call and its outcome.
HandlerSend(i, outcome) ==
    /\ h[i].pc = "send"
    /\ LET n    == Len(h[i].sends) + 1
           call == SendCall(h[i].msg, h[i].chunks[n])
           last == n = Len(h[i].chunks)
       IN  /\ h' = [h EXCEPT ![i].sends =
                                 Append(@, [call |-> call,
                                            ok |-> outcome = "ok"]),
                             ![i].pc = IF last THEN "done" ELSE "send"]
           /\ fa' = IF last THEN FaAfter(i, FALSE) ELSE fa
    /\ UNCHANGED <<secVars, cfgVars, channels, debVars, histVars, fnVars>>

\* The pipeline as the application runs it (nothing there calls flush_all):
\* every policy, the operator's approve/deny/revoke, media, and every answer
\* of the collaborators.
Next ==
    \/ /\ nextId <= MaxUpdates
       /\ \E sender \in Senders, chat \in Chats, media \in {<<>>, <<Photo>>} :
              Process(sender, chat, UpdateText(nextId), media,
                      ReplyTarget(nextId))
    \/ /\ admin_calls < MaxAdminCalls
       /\ \E sender \in Senders : Approve(Channel, sender)
    \/ /\ admin_calls < MaxAdminCalls
       /\ \E sender \in Senders : Deny(Channel, sender)
    \/ /\ admin_calls < MaxAdminCalls
       /\ \E sender \in Senders : Revoke(Channel, sender)
    \/ Tick
    \/ \E t \in Ids : TimerFire(t)
    \/ FlushTaskRun
    \/ \E i \in Ids :
           \E outcomes \in [1..Len(h[i].msg.media) -> DownloadOutcomes],
              resolver_raises \in BOOLEAN :
               HandlerResolve(i, outcomes, resolver_raises)
    \/ \E i \in Ids, outcome \in DispatchOutcomes : HandlerDispatched(i, outcome)
    \/ \E i \in Ids, outcome \in SendOutcomes : HandlerSend(i, outcome)

Spec == Init /\ [][Next]_vars

\* The debouncer under bursts: an open gate, no resolver, updates with a text
\* and no media, collaborators that answer plainly, flush_all, and one more
\* update than Spec allows.
DebInit ==
    /\ Constructed({"open"}, {{}}, {DefaultChunkLimit}, FALSE)
    /\ FnIdle

DebNext ==
    \/ /\ nextId <= MaxDebUpdates
       /\ \E sender \in Senders, chat \in Chats :
              Process(sender, chat, UpdateText(nextId), <<>>,
                      ReplyTarget(nextId))
    \/ Tick
    \/ \E t \in Ids : TimerFire(t)
    \/ FlushTaskRun
    \/ FlushAllCall
    \/ FlushAllResume
    \/ \E i \in Ids : HandlerDispatched(i, DispatchReturns(LongResponse))
    \/ \E i \in Ids : HandlerSend(i, "ok")

SpecDebounce == DebInit /\ [][DebNext]_vars

\* The same, with what the event loop guarantees: time passes, a due handle's
\* callback runs, a scheduled task runs.  Nothing is assumed of dispatch_fn
\* and send_text: an await of either may never return.
SpecDebounceLive ==
    /\ SpecDebounce
    /\ WF_vars(Tick)
    /\ \A t \in Ids : WF_vars(TimerFire(t))
    /\ WF_vars(FlushTaskRun)

\* The debouncer's keys: chat and sender ids as other platforms have them,
\* with the separator of _build_key inside.
MaxKeyUpdates == 2

KeyChats == {"c1", "c1:x"}

KeySenders == {"y", "x:y"}

KeyNext ==
    \/ /\ nextId <= MaxKeyUpdates
       /\ \E sender \in KeySenders, chat \in KeyChats :
              Process(sender, chat, UpdateText(nextId), <<>>,
                      ReplyTarget(nextId))
    \/ Tick
    \/ \E t \in Ids : TimerFire(t)
    \/ FlushTaskRun
    \/ \E i \in Ids : HandlerDispatched(i, DispatchReturns(LongResponse))
    \/ \E i \in Ids : HandlerSend(i, "ok")

SpecKeys == DebInit /\ [][KeyNext]_vars

\* The access gate on its own: every policy, calls of its four methods in any
\* order, for two channels and two senders whose ids hold the separator of
\* _scoped_id.
MaxSecCalls == 3

SecChannels == {"telegram", "telegram:eu"}

SecSenders == {"123", "eu:123"}

SecInit ==
    /\ Constructed({"open", "pairing", "disabled"},
                   {{}, {ScopedId("telegram", "123")}},
                   {DefaultChunkLimit}, FALSE)
    /\ FnIdle

SecNext ==
    \/ /\ Len(sec_log) < MaxSecCalls
       /\ \E channel \in SecChannels, sender_id \in SecSenders :
              CheckAccess(channel, sender_id)
    \/ /\ Len(sec_log) < MaxSecCalls
       /\ \E channel \in SecChannels, sender_id \in SecSenders :
              Approve(channel, sender_id)
    \/ /\ Len(sec_log) < MaxSecCalls
       /\ \E channel \in SecChannels, sender_id \in SecSenders :
              Deny(channel, sender_id)
    \/ /\ Len(sec_log) < MaxSecCalls
       /\ \E channel \in SecChannels, sender_id \in SecSenders :
              Revoke(channel, sender_id)

SpecSecurity == SecInit /\ [][SecNext]_vars

\* _coalesce as a function: every batch of up to MaxBatch messages that
\* differ in text, media and metadata.
MaxBatch == 3

Pdf == Attachment("document", <<"a", "/", "p">>, "f2", 2)

\* Two senders' metadata, different in every field.
MetaOf(n) ==
    IF n = 1
        THEN InboundMessage("telegram", "c1", "alice", "Alice", <<>>, <<>>,
                            NoneVal, NoneVal, 1)
        ELSE InboundMessage("discord", "c2", "bob", "Bob", <<>>, <<>>,
                            "m7", "t3", 2)

CoMessages ==
    {[MetaOf(n) EXCEPT !.text = text, !.media = media] :
         n \in {1, 2}, text \in {<<>>, <<"a">>, <<"b">>},
         media \in {<<>>, <<Photo>>, <<Pdf>>}}

CoBatches == UNION {[1..n -> CoMessages] : n \in 1..MaxBatch}

CoInit ==
    /\ Constructed({"open"}, {{}}, {DefaultChunkLimit}, FALSE)
    /\ co_in \in CoBatches
    /\ co_out = <<>>
    /\ ck_in = <<>>
    /\ ck_out = <<>>
    /\ mproc = <<>>
    /\ pa = <<>>
    /\ mgb = <<>>
    /\ lp = <<>>
    /\ tg = <<>>

\* InboundDebouncer._coalesce(co_in)
CoalesceApply ==
    /\ co_out = <<>>
    /\ co_out' = <<Coalesce(co_in)>>
    /\ UNCHANGED <<co_in, pipeVars, ckVars, mdVars, mgb, lp, tg>>

SpecCoalesce == CoInit /\ [][CoalesceApply]_vars

----
\* ------------------------------------- chunk_text as a function of its input

\* The longest text of the exhaustive part of the chunking inputs.
MaxChunkText == 4

\* The largest limit of the exhaustive part of the chunking inputs.
MaxChunkLimit == 3

\* The characters of the exhaustive texts: a letter, the three separators
\* _chunk_plain looks for, and the fence character.
ChunkAlphabet == {"a", " ", NL, Backtick}

ShortTexts == UNION {[1..n -> ChunkAlphabet] : n \in 0..MaxChunkText}

\* A fenced code block of n body characters on one line.
FencedBlock(n) ==
    <<Backtick, Backtick, Backtick, NL>> \o Repeat("x", n)
        \o <<NL, Backtick, Backtick, Backtick>>

\* Two paragraphs, a fenced block with a two-line body, and a trailing line.
MixedText ==
    <<"a", "a", " ", "a", NL, NL>> \o <<"~", "~", "~", "p", "y", NL>>
        \o Repeat("x", 6) \o <<NL>> \o Repeat("y", 6) \o <<NL, "~", "~", "~", NL>>
        \o <<"b", " ", "b">>

\* A fenced block whose body has a line holding a single backtick, followed
\* by a paragraph.
BacktickLineText ==
    <<Backtick, Backtick, Backtick, NL, "a", NL, Backtick, NL, "b", NL>>
        \o <<Backtick, Backtick, Backtick, NL, NL, "c", "c">>

\* Texts whose code block alone exceeds the limit they are paired with: a
\* body longer than the inner-limit floor, one longer than a computed inner
\* limit, a mixed text, and a fence that is never closed; and a text whose
\* code block fits the limit while the text does not.
LongInputs ==
    {[text |-> FencedBlock(MinInnerLimit + 1), limit |-> SmallChunkLimit],
     [text |-> FencedBlock(MinInnerLimit + 30),
      limit |-> MinInnerLimit + 20],
     [text |-> MixedText, limit |-> 10],
     [text |-> MixedText, limit |-> 25],
     [text |-> <<"a", NL>> \o SubSeq(FencedBlock(12), 1, 16), limit |-> 8],
     [text |-> BacktickLineText, limit |-> 14]}

ChunkModes == {"text", "markdown"}

ChunkInputs ==
    {[text |-> t, limit |-> l, mode |-> m] :
         t \in ShortTexts, l \in 1..MaxChunkLimit, m \in ChunkModes}
    \cup {[text |-> i.text, limit |-> i.limit, mode |-> m] :
              i \in LongInputs, m \in ChunkModes}

ChunkInit ==
    /\ Constructed({"open"}, {{}}, {DefaultChunkLimit}, FALSE)
    /\ co_in = <<>>
    /\ co_out = <<>>
    /\ ck_in \in ChunkInputs
    /\ ck_out = <<>>
    /\ mproc = <<>>
    /\ pa = <<>>
    /\ mgb = <<>>
    /\ lp = <<>>
    /\ tg = <<>>

\* chunk_text(ck_in.text, ck_in.limit, ck_in.mode)
ChunkApply ==
    /\ ck_out = <<>>
    /\ ck_out' = <<chunk_text(ck_in.text, ck_in.limit, ck_in.mode)>>
    /\ UNCHANGED <<ck_in, pipeVars, coVars, mdVars, mgb, lp, tg>>

SpecChunk == ChunkInit /\ [][ChunkApply]_vars

----
\* ------------------------------ MediaProcessor.process_attachments, by steps

\* The longest attachment list process_attachments is given.
MaxAttachments == 2

TextPlain == <<"text", "/", "plain">>

ApplicationPdf == <<"application", "/", "pdf">>

ImageOnly == << <<"image", "/", "*">> >>

\* The allowed_types argument of the constructor; None and the empty list
\* are both falsy and both written <<>>.
AllowedTypesArgs == {<<>>, ImageOnly}

\* MediaProcessor.__init__
MediaProcessor(max_file_size_bytes, allowed_types) ==
    [max_file_size_bytes |-> max_file_size_bytes,
     allowed_types |-> IF Len(allowed_types) = 0
                           THEN DefaultAllowedTypes ELSE allowed_types]

\* The MIME types and the declared sizes of the attachments of the inputs.
MediaMimes == {ImagePng, ApplicationPdf, TextPlain}

MediaSizes == {NoSize, MaxFileSize, MaxFileSize + 1}

FileId(k) == "f" \o ToString(k)

\* The attachment lists: the k-th attachment has file_id FileId(k).
AttachmentLists ==
    UNION {{[k \in 1..n |-> Attachment("document", d[k][1], FileId(k), d[k][2])] :
                d \in [1..n -> MediaMimes \X MediaSizes]} :
           n \in 0..MaxAttachments}

\* What the adapter's download_file may do.
AdapterOutcomes ==
    {DownloadRaises, DownloadReturns(MaxFileSize, ImagePng),
     DownloadReturns(MaxFileSize + 1, ImagePng),
     DownloadReturns(1, TextPlain)}

\* What Part.from_bytes may do in to_adk_part.
ConvertOutcomes == {"part", "raises"}

\* One entry of the call's history.
PaEvent(ev, k, arg) == [ev |-> ev, k |-> k, arg |-> arg]

\* The frame of process_attachments(channel, attachments) when the loop is
\* at attachment i; pc is the line the call is at.
PaAt(f, i) ==
    [f EXCEPT !.i = i,
              !.pc = IF i > Len(f.attachments) THEN "returned" ELSE "validate"]

\* Every exception leaves the call.
Uncaught(f, exc) == [f EXCEPT !.pc = "raised"]

\* The except clauses of process_attachments (lines 116-119): the
\* attachment is skipped and the loop goes on.
Caught(f, exc) ==
    PaAt([f EXCEPT !.log = Append(@, PaEvent("skipped", f.i, exc))], f.i + 1)

MediaInit ==
    /\ Constructed({"open"}, {{}}, {DefaultChunkLimit}, FALSE)
    /\ co_in = <<>>
    /\ co_out = <<>>
    /\ ck_in = <<>>
    /\ ck_out = <<>>
    /\ mproc \in {MediaProcessor(MaxFileSize, a) : a \in AllowedTypesArgs}
    /\ mgb = <<>>
    /\ lp = <<>>
    /\ tg = <<>>
    /\ pa \in {PaAt([attachments |-> atts, i |-> 1, pc |-> "validate",
                     data |-> DownloadRaises, parts |-> <<>>, log |-> <<>>], 1) :
                   atts \in AttachmentLists}

\* download going on to download_file whatever validate found.
MpValidateIgnored ==
    /\ pa.pc = "validate"
    /\ LET ok == Validate(mproc.allowed_types, mproc.max_file_size_bytes,
                          pa.attachments[pa.i])
       IN  pa' = [pa EXCEPT !.pc = "download_file",
                            !.log = Append(@, PaEvent("validate", pa.i, ok))]
    /\ UNCHANGED <<mproc, pipeVars, coVars, ckVars, mgb, lp, tg>>

\* download, line 76: self.validate(attachment)
MpValidate ==
    /\ pa.pc = "validate"
    /\ LET ok == Validate(mproc.allowed_types, mproc.max_file_size_bytes,
                          pa.attachments[pa.i])
           f  == [pa EXCEPT !.log = Append(@, PaEvent("validate", pa.i, ok))]
       IN  pa' = IF ok THEN [f EXCEPT !.pc = "download_file"]
                 ELSE Caught(f, "MediaValidationError")
    /\ UNCHANGED <<mproc, pipeVars, coVars, ckVars, mgb, lp, tg>>

\* download, line 77: await channel.download_file(attachment.file_id)
MpDownloadFile(outcome) ==
    /\ pa.pc = "download_file"
    /\ LET f == [pa EXCEPT !.log = Append(@,
                     PaEvent("download_file", pa.i,
                             pa.attachments[pa.i].file_id))]
       IN  pa' = IF outcome.raises THEN Caught(f, "Exception")
                 ELSE [f EXCEPT !.pc = "post_check", !.data = outcome]
    /\ UNCHANGED <<mproc, pipeVars, coVars, ckVars, mgb, lp, tg>>

\* download returning the bytes without the check on their number.
MpPostCheckTrusting ==
    /\ pa.pc = "post_check"
    /\ pa' = [pa EXCEPT !.pc = "to_adk_part",
                        !.log = Append(@, PaEvent("downloaded", pa.i,
                                                  pa.data.size))]
    /\ UNCHANGED <<mproc, pipeVars, coVars, ckVars, mgb, lp, tg>>

\* download, lines 80-86: the size check on the bytes retrieved
MpPostCheck ==
    /\ pa.pc = "post_check"
    /\ pa' = IF pa.data.size > mproc.max_file_size_bytes
                 THEN Caught(pa, "MediaValidationError")
                 ELSE [pa EXCEPT !.pc = "to_adk_part",
                                 !.log = Append(@, PaEvent("downloaded", pa.i,
                                                           pa.data.size))]
    /\ UNCHANGED <<mproc, pipeVars, coVars, ckVars, mgb, lp, tg>>

\* process_attachments, line 109: parts.append(self.to_adk_part(...))
MpToAdkPart(conv) ==
    /\ pa.pc = "to_adk_part"
    /\ pa' = IF conv = "raises" THEN Caught(pa, "Exception")
             ELSE PaAt([pa EXCEPT
                           !.parts = Append(@, ToAdkPart(pa.data.size,
                                                         pa.data.mime_type)),
                           !.log = Append(@, PaEvent("part", pa.i,
                                                     pa.data.size))],
                       pa.i + 1)
    /\ UNCHANGED <<mproc, pipeVars, coVars, ckVars, mgb, lp, tg>>

MediaNext ==
    \/ MpValidate
    \/ \E outcome \in AdapterOutcomes : MpDownloadFile(outcome)
    \/ MpPostCheck
    \/ \E conv \in ConvertOutcomes : MpToAdkPart(conv)

SpecMedia == MediaInit /\ [][MediaNext]_vars

----
\* ------------------------------ telegram/handlers.py: MediaGroupBuffer

\* The number of messages of the album.
MaxGroupMessages == 3

ImageJpeg == <<"image", "/", "jpeg">>

\* The n-th message of the album, as normalize_update builds it: one photo,
\* and message_id n in raw.
GroupMessage(n) ==
    InboundMessage("telegram", "42", "1", <<"s", ToString(n)>>,
                   <<"c", ToString(n)>>,
                   <<Attachment("image", ImageJpeg, FileId(n), NoSize)>>,
                   IF n = 2 THEN "7" ELSE NoneVal, NoneVal,
                   [message_id |-> n, media_group_id |-> "mg1"])

\* The sort key of _flush: m.raw.get("message_id", 0).
MessageIdKey(m) ==
    IF "message_id" \in DOMAIN m.raw THEN m.raw.message_id ELSE 0

\* Where a stable sort puts m in the sorted list: after every element whose
\* key is not greater.
InsertByKey(sorted, m) ==
    LET before == {i \in 1..Len(sorted) :
                       MessageIdKey(sorted[i]) <= MessageIdKey(m)}
        n      == IF before = {} THEN 0 ELSE Max(before)
    IN  SubSeq(sorted, 1, n) \o <<m>> \o SubSeq(sorted, n + 1, Len(sorted))

\* The list left in arrival order.
Unsorted(messages) == messages

RECURSIVE SortByMessageId(_)
\* messages.sort(key=...): a stable sort, ascending.
SortByMessageId(messages) ==
    IF Len(messages) = 0 THEN <<>>
    ELSE InsertByKey(SortByMessageId(SubSeq(messages, 1, Len(messages) - 1)),
                     messages[Len(messages)])

\* _flush, lines 208-224: the combined message of a non-empty list.
CombineGroup(messages) ==
    LET sorted == SortByMessageId(messages)
        first  == sorted[1]
    IN  InboundMessage(first.channel, first.chat_id, first.sender_id,
                       first.sender_name, first.text,
                       Flatten([k \in 1..Len(sorted) |-> sorted[k].media]),
                       first.reply_to_id, first.thread_id, first.raw)

GroupInit ==
    /\ Constructed({"open"}, {{}}, {DefaultChunkLimit}, FALSE)
    /\ co_in = <<>>
    /\ co_out = <<>>
    /\ ck_in = <<>>
    /\ ck_out = <<>>
    /\ mproc = <<>>
    /\ pa = <<>>
    /\ mgb = [groups |-> <<>>, in_timers |-> FALSE, armed |-> FALSE,
              stray |-> 0, tasks |-> 0, flushed |-> <<>>, arrived |-> {}]
    /\ lp = <<>>
    /\ tg = <<>>

\* MediaGroupBuffer.add("mg1", GroupMessage(n))
GroupAdd(n) ==
    /\ n \notin mgb.arrived
    /\ mgb' = [mgb EXCEPT !.groups = Append(@, GroupMessage(n)),
                          !.in_timers = TRUE,
                          !.armed = TRUE,
                          !.arrived = @ \cup {n}]
    /\ UNCHANGED <<pipeVars, coVars, ckVars, mdVars, lp, tg>>

\* The timer _timers holds fires: its callback schedules _flush.
GroupTimerFire ==
    /\ mgb.armed
    /\ mgb' = [mgb EXCEPT !.armed = FALSE, !.tasks = @ + 1]
    /\ UNCHANGED <<pipeVars, coVars, ckVars, mdVars, lp, tg>>

\* A timer _flush dropped from _timers without cancelling it fires.
GroupStrayTimerFire ==
    /\ mgb.stray > 0
    /\ mgb' = [mgb EXCEPT !.stray = @ - 1, !.tasks = @ + 1]
    /\ UNCHANGED <<pipeVars, coVars, ckVars, mdVars, lp, tg>>

\* MediaGroupBuffer._flush("mg1"), with the flush callback recording what it
\* is given and the list it was combined from.
GroupFlush ==
    /\ mgb.tasks > 0
    /\ mgb' = [mgb EXCEPT
                  !.tasks = @ - 1,
                  !.groups = <<>>,
                  !.in_timers = FALSE,
                  !.armed = FALSE,
                  !.stray = IF mgb.armed THEN @ + 1 ELSE @,
                  !.flushed = IF Len(mgb.groups) = 0 THEN @
                              ELSE Append(@, [msg |-> CombineGroup(mgb.groups),
                                              from |-> mgb.groups])]
    /\ UNCHANGED <<pipeVars, coVars, ckVars, mdVars, lp, tg>>

GroupNext ==
    \/ \E n \in 1..MaxGroupMessages : GroupAdd(n)
    \/ GroupTimerFire
    \/ GroupStrayTimerFire
    \/ GroupFlush

SpecGroup == GroupInit /\ [][GroupNext]_vars

----
\* ------------------------------------- the while loop of _chunk_plain

\* The code blocks and paragraphs of a MARKDOWN-mode input that alone exceed
\* the limit.
OversizedBlocks(text, limit) ==
    LET blocks == SplitIntoBlocks(text)
    IN  {blocks[i] : i \in {j \in 1..Len(blocks) : Len(blocks[j]) > limit}}

\* The calls of _chunk_plain that _chunk_markdown and _split_oversized_block
\* make for one oversized block: on the block itself when it is a paragraph;
\* on the body of a code block, with the inner limit, and then, once that
\* call has returned, on every re-fenced fragment longer than the limit.
BlockCalls(block, limit) ==
    LET fence == FenceMatch(block)
    IN  IF Len(fence) = 0 THEN {[remaining |-> block, limit |-> limit]}
        ELSE LET inner == InnerLimit(limit, Split(block, NL)[1], fence)
             IN  {[remaining |-> BlockBody(block, fence), limit |-> inner]}
                 \cup (IF inner < 1 THEN {}
                       ELSE LET subs == SplitOversizedBlock(block, limit)
                            IN  {[remaining |-> subs[k], limit |-> limit] :
                                     k \in {j \in 1..Len(subs) :
                                                Len(subs[j]) > limit}})

\* The calls of _chunk_plain chunk_text makes for one input.
PlainCallsOf(in) ==
    IF Len(in.text) <= in.limit THEN {}
    ELSE IF in.mode = "markdown"
    THEN UNION {BlockCalls(b, in.limit) : b \in OversizedBlocks(in.text, in.limit)}
    ELSE {[remaining |-> in.text, limit |-> in.limit]}

PlainCalls == UNION {PlainCallsOf(in) : in \in ChunkInputs}

LoopInit ==
    /\ Constructed({"open"}, {{}}, {DefaultChunkLimit}, FALSE)
    /\ co_in = <<>>
    /\ co_out = <<>>
    /\ ck_in = <<>>
    /\ ck_out = <<>>
    /\ mproc = <<>>
    /\ pa = <<>>
    /\ mgb = <<>>
    /\ tg = <<>>
    /\ lp \in {[call |-> c, remaining |-> c.remaining, limit |-> c.limit,
                chunks |-> <<>>, pc |-> "while"] : c \in PlainCalls}

\* One pass of the while loop of _chunk_plain (lines 48-66), or its exit.
PlainLoopStep ==
    /\ lp.pc = "while"
    /\ lp' = IF Len(lp.remaining) = 0 THEN [lp EXCEPT !.pc = "return"]
             ELSE IF Len(lp.remaining) <= lp.limit
             THEN [lp EXCEPT !.chunks = Append(@, lp.remaining),
                             !.pc = "return"]
             ELSE LET cut == PlainCut(lp.remaining, lp.limit)
                  IN  [lp EXCEPT
                          !.chunks = Append(@, RStrip(Slice(lp.remaining, 0, cut))),
                          !.remaining = LStrip(Slice(lp.remaining, cut,
                                                     Len(lp.remaining)))]
    /\ UNCHANGED <<pipeVars, coVars, ckVars, mdVars, mgb, tg>>

SpecLoop == LoopInit /\ [][PlainLoopStep]_vars

\* The loop is straight-line code: it keeps running until it returns.
SpecLoopLive == SpecLoop /\ WF_vars(PlainLoopStep)

----
\* ------------------------------------- channels/telegram/plugin.py, api/app.py

\* The bot commands _handle_command knows, and one it does not.
Commands == {"start", "help", "memories", "forget", "reflect", "unknown"}

\* The text of a command update: "/" and the command word.
CommandText(command) == <<"/", command>>

\* handlers.is_command: the text is not empty and starts with "/".
IsCommand(text) == Len(text) > 0 /\ text[1] = "/"

\* handlers.parse_command: the command word of a command text.
ParseCommand(text) == text[2]

\* api/app._handle_command: what it calls, in order, for each command:
\* send_text_message ("send"), MemoryManager.get_all ("store_read"),
\* MemoryManager.delete_all ("store_delete"), orchestrator.reflect
\* ("reflect").
HandleCommand(command) ==
    CASE command = "start" -> <<"send">>
      [] command = "help" -> <<"send">>
      [] command = "memories" -> <<"store_read", "send">>
      [] command = "forget" -> <<"store_delete", "send">>
      [] command = "reflect" -> <<"send", "reflect", "send">>
      [] OTHER -> <<"send">>

\* What the handler records of a command update: who sent it, what
\* check_access answers for that sender at that moment, and the calls made.
CommandRun(sender, command) ==
    [sender |-> sender, command |-> command,
     access |-> CheckAccessResult(policy, allow_from, Channel, sender),
     calls |-> HandleCommand(command)]

\* The texts an update of the model carries: the update's number, or a
\* command.
TgTexts == {UpdateText(nextId)} \cup {CommandText(c) : c \in Commands}

\* _setup_telegram: the enforcer, the pipeline with a resolver, and a
\* TelegramChannel with on_message = pipeline.process and
\* on_command = _handle_command.
TgInit ==
    /\ Constructed({"open", "pairing", "disabled"},
                   {{}, {ScopedId(Channel, "alice")}}, {DefaultChunkLimit},
                   TRUE)
    /\ co_in = <<>>
    /\ co_out = <<>>
    /\ ck_in = <<>>
    /\ ck_out = <<>>
    /\ mproc = <<>>
    /\ pa = <<>>
    /\ mgb = <<>>
    /\ lp = <<>>
    /\ tg = [n |-> 0, albums |-> [s \in Senders |-> 0], commands |-> <<>>]

\* TelegramChannel._handle_update for one update: addressed is false for a
\* group message that does not mention the bot, in_album is true for an
\* update with a media_group_id.
HandleUpdate(sender, text, media, in_album, addressed) ==
    /\ tg.n < MaxTgUpdates
    /\ IF ~addressed /\ ~IsCommand(text)
           THEN /\ tg' = [tg EXCEPT !.n = @ + 1]
                /\ UNCHANGED pipeVars
       ELSE IF IsCommand(text)
           THEN /\ tg' = [tg EXCEPT
                             !.n = @ + 1,
                             !.commands =
                                 Append(@, CommandRun(sender,
                                                      ParseCommand(text)))]
                /\ UNCHANGED pipeVars
       ELSE IF in_album
           THEN /\ tg' = [tg EXCEPT !.n = @ + 1, !.albums[sender] = @ + 1]
                /\ UNCHANGED pipeVars
       ELSE /\ tg' = [tg EXCEPT !.n = @ + 1]
            /\ \E chat \in Chats :
                   ProcessMessage(sender, chat, text, media,
                                  ReplyTarget(nextId))
    /\ UNCHANGED <<coVars, ckVars, mdVars, mgb, lp>>

\* The media group buffer's timer of a sender's album has fired and its task
\* runs: MediaGroupBuffer._flush hands the combined message to
\* _dispatch_message, which calls on_message, i.e. pipeline.process.
AlbumFlush(sender) ==
    /\ tg.albums[sender] > 0
    /\ tg' = [tg EXCEPT !.albums[sender] = 0]
    /\ \E chat \in Chats :
           ProcessMessage(sender, chat, <<>>,
                          [k \in 1..tg.albums[sender] |-> Photo],
                          ReplyTarget(nextId))
    /\ UNCHANGED <<coVars, ckVars, mdVars, mgb, lp>>

TgNext ==
    \/ \E sender \in Senders, text \in TgTexts, media \in {<<>>, <<Photo>>},
          in_album \in BOOLEAN, addressed \in BOOLEAN :
           /\ in_album => media # <<>>
           /\ HandleUpdate(sender, text, media, in_album, addressed)
    \/ \E sender \in Senders : AlbumFlush(sender)
    \/ Tick
    \/ \E t \in Ids : TimerFire(t)
    \/ FlushTaskRun
    \/ \E i \in Ids :
           \E outcomes \in [1..Len(h[i].msg.media) -> {DownloadReturns(1, ImagePng)}] :
               HandlerResolve(i, outcomes, FALSE)
    \/ \E i \in Ids : HandlerDispatched(i, DispatchReturns(LongResponse))
    \/ \E i \in Ids : HandlerSend(i, "ok")

SpecTelegram == TgInit /\ [][TgNext]_vars

----
\* -------------------------------------------------------------- claims

\* The updates invocation i of _handle_after_debounce handles.
IdsOf(i) == {h[i].ids[k] : k \in 1..Len(h[i].ids)}

\* check_access returned not allowed for update n.
Denied(n) == gate[n] \in {"dm_disabled", "awaiting_pairing"}

\* check_access returned allowed for update n.
Passed(n) == gate[n] = "ok"

\* The texts of the send_text calls invocation i has made.
SentTexts(i) == [k \in 1..Len(h[i].sends) |-> h[i].sends[k].call.text]

\* C1: a message for which check_access returns not allowed is never
\* enqueued in the debouncer, never buffered, and no invocation of
\* _handle_after_debounce (hence no dispatch and no send_text) handles it.
C1_DeniedNeverProcessed ==
    \A n \in Ids :
        Denied(n) =>
            /\ n \notin enq
            /\ n \notin BufferedIds
            /\ \A i \in Ids : n \notin IdsOf(i)

\* An update was denied and another one was admitted and answered.
C1_Witness ==
    \E n \in Ids, m \in Ids :
        /\ Denied(n)
        /\ Passed(m)
        /\ h[m].pc = "done"
        /\ Len(h[m].sends) > 0

\* C2, as stated: an invocation of _handle_after_debounce that has returned
\* has made at least one send_text call, whatever dispatch_fn returned.
C2_NeverWithoutReply ==
    \A i \in Ids : h[i].pc = "done" => Len(h[i].sends) >= 1

C4_ProcessNeverRaises ==
    \A i \in Ids : h[i].origin = "process" => h[i].pc # "raised"

\* A handle is scheduled: neither run nor cancelled.
Live(t) == timers[t].state = "live"

\* Invocation i of the flush callback has started and not finished.
InProgress(i) == h[i].pc \in {"resolve", "dispatch", "send"}

\* The texts of the updates an invocation handles, joined by newline.
JoinedTexts(ids) ==
    JoinWith(<<NL>>, [k \in 1..Len(ids) |-> UpdateText(ids[k])])

\* The updates enqueued so far that belong to the burst of update n.
BurstMembers(n) == {m \in enq : burst[m] = burst[n]}

\* The latest burst of each key: the bursts no further input has followed.
LastBursts ==
    {burst[n] : n \in {m \in enq :
                           \A o \in enq : timers[o].key = timers[m].key
                                               => o <= m}}

\* C5, as stated: for every key, at most one scheduled (not yet fired, not
\* cancelled) timer exists at any time.
C5_AtMostOneLiveTimer ==
    \A t \in Ids, u \in Ids :
        (t # u /\ Live(t) /\ Live(u)) => timers[t].key # timers[u].key

\* C6, as stated: a burst for one key that no further input follows is
\* flushed exactly once, as a whole and alone: an invocation of the flush
\* callback that holds an update of the burst holds exactly the burst's
\* updates, and its text is their texts joined by newline in arrival order.
C6_BurstFlushedOnce ==
    \A i \in Ids, n \in enq :
        (n \in IdsOf(i) /\ burst[n] \in LastBursts) =>
            /\ IdsOf(i) = BurstMembers(n)
            /\ h[i].msg.text = JoinedTexts(h[i].ids)

\* C7, as stated, for the flushes the timers start: for every key at most one
\* invocation of the flush callback is in progress at any time.
C7_SameKeySerialized ==
    \A i \in Ids, j \in Ids :
        (/\ i # j
         /\ h[i].origin = "timer" /\ InProgress(i)
         /\ h[j].origin = "timer" /\ InProgress(j)) =>
            BuildKey(h[i].msg) # BuildKey(h[j].msg)

\* C8, as stated: when flush_all has returned, every message buffered when it
\* was called has been handed to the flush callback exactly once, none of
\* them is still buffered, and no timer that was pending at the call for one
\* of their keys is still pending.
C8_FlushAllDrains ==
    fa.pc = "done" =>
        /\ \A n \in fa.ids : Cardinality({i \in Ids : n \in IdsOf(i)}) = 1
        /\ fa.ids \cap BufferedIds = {}
        /\ \A t \in fa.live :
               (\E n \in fa.ids : timers[n].key = timers[t].key) => ~Live(t)

\* C9, as stated: no timer that was pending when flush_all began fires.
C9_NoFireAfterDrainBegins ==
    \A t \in fa.live : timers[t].state # "fired"

\* A message of the batch before the k-th has a non-empty text.
TextBefore(k) == \E j \in 1..(k - 1) : co_in[j].text # <<>>

RECURSIVE NonEmptyJoined(_)
\* The non-empty texts of the first k messages of the batch, each after the
\* first preceded by a newline.
NonEmptyJoined(k) ==
    IF k = 0 THEN <<>>
    ELSE IF co_in[k].text = <<>> THEN NonEmptyJoined(k - 1)
    ELSE IF TextBefore(k) THEN NonEmptyJoined(k - 1) \o <<NL>> \o co_in[k].text
    ELSE co_in[k].text

RECURSIVE AllJoined(_)
\* The texts of the first k messages of the batch, empty ones too, each
\* after the first preceded by a newline.
AllJoined(k) ==
    IF k = 1 THEN co_in[1].text
    ELSE AllJoined(k - 1) \o <<NL>> \o co_in[k].text

RECURSIVE MediaUpTo(_)
\* The attachments of the first k messages of the batch, in arrival order.
MediaUpTo(k) ==
    IF k = 0 THEN <<>> ELSE MediaUpTo(k - 1) \o co_in[k].media

\* The flushed message has the last message's metadata and the batch's media.
LastWins(m) ==
    LET last == co_in[Len(co_in)]
    IN  /\ m.media = MediaUpTo(Len(co_in))
        /\ m.channel = last.channel
        /\ m.chat_id = last.chat_id
        /\ m.sender_id = last.sender_id
        /\ m.sender_name = last.sender_name
        /\ m.reply_to_id = last.reply_to_id
        /\ m.thread_id = last.thread_id
        /\ m.raw = last.raw

C11_SameTripleOnly ==
    \A i \in Ids :
        \A a \in IdsOf(i) \cap enq, b \in IdsOf(i) \cap enq :
            ident[a] = ident[b]

\* dispatch_fn has been called for update n.
Dispatched(n) == \E i \in Ids : n \in IdsOf(i) /\ Len(h[i].calls) = 1

\* An invocation of the flush callback for another key than update n's is
\* under way.
OtherKeyInFlight(n) ==
    \E j \in Ids : InProgress(j) /\ BuildKey(h[j].msg) # timers[n].key

\* C12: a message buffered for key B while a dispatch or send for another key
\* A is in flight is eventually flushed and dispatched, even when the work
\* for A never completes.
C12_OtherKeysProceed ==
    \A n \in Ids :
        (n \in BufferedIds /\ OtherKeyInFlight(n)) ~> Dispatched(n)

\* Two invocations the timers started, for different keys, are under way at
\* the same time.
C12_Witness ==
    \E i \in Ids, j \in Ids :
        /\ InProgress(i) /\ h[i].origin = "timer"
        /\ InProgress(j) /\ h[j].origin = "timer"
        /\ BuildKey(h[i].msg) # BuildKey(h[j].msg)

\* The scoped id a logged call on the enforcer is about.
ScopedOf(e) == ScopedId(e.channel, e.sender_id)

\* C13: in pairing mode, check_access for a sender in neither set returns
\* (false, "awaiting_pairing") and leaves the scoped id pending; approve
\* leaves it in the allow-set and not pending; a check_access for the same
\* sender right after approve returns (true, "ok").
C13_PairingThenApprove ==
    policy = "pairing" =>
        \A k \in 1..Len(sec_log) :
            LET e == sec_log[k]
            IN  /\ (/\ e.op = "check_access"
                     /\ ScopedOf(e) \notin e.allow_before
                     /\ ScopedOf(e) \notin e.pending_before) =>
                        /\ e.result = <<FALSE, "awaiting_pairing">>
                        /\ ScopedOf(e) \in e.pending_after
                /\ e.op = "approve" =>
                        /\ ScopedOf(e) \in e.allow_after
                        /\ ScopedOf(e) \notin e.pending_after
                /\ (/\ k > 1
                     /\ e.op = "check_access"
                     /\ sec_log[k - 1].op = "approve"
                     /\ ScopedOf(sec_log[k - 1]) = ScopedOf(e)) =>
                        e.result = <<TRUE, "ok">>

\* In pairing mode an unknown sender was checked, approved and checked again.
C13_Witness ==
    /\ policy = "pairing"
    /\ Len(sec_log) = 3
    /\ sec_log[1].op = "check_access"
    /\ ScopedOf(sec_log[1]) \notin sec_log[1].allow_before
    /\ sec_log[2].op = "approve"
    /\ sec_log[3].op = "check_access"
    /\ ScopedOf(sec_log[2]) = ScopedOf(sec_log[1])
    /\ ScopedOf(sec_log[3]) = ScopedOf(sec_log[1])

\* C14: in mode disabled every check_access returns (false, "dm_disabled")
\* and in mode open every check_access returns (true, "ok"), whatever the
\* sender and whatever approve, deny and revoke did before.
C14_ModeFixesOutcome ==
    \A k \in 1..Len(sec_log) :
        sec_log[k].op = "check_access" =>
            /\ policy = "disabled" =>
                   sec_log[k].result = <<FALSE, "dm_disabled">>
            /\ policy = "open" => sec_log[k].result = <<TRUE, "ok">>

\* In mode disabled a sender was approved and then checked.
C14_Witness ==
    /\ policy = "disabled"
    /\ \E k \in 2..Len(sec_log) :
           /\ sec_log[k].op = "check_access"
           /\ sec_log[k - 1].op = "approve"
           /\ ScopedOf(sec_log[k]) = ScopedOf(sec_log[k - 1])
           /\ ScopedOf(sec_log[k]) \in sec_log[k].allow_before

\* The pairs of the second channel: those a call on a pair of the first must
\* leave alone.
OtherChannelPairs(e) ==
    {p \in SecChannels \X SecSenders : p[1] # e.channel}

\* C15, as stated: a call for one (channel, sender_id) never changes the
\* allow-set membership, the pending membership or the check_access result
\* of a pair with another channel.
C15_ChannelsShareNothing ==
    \A k \in 1..Len(sec_log) :
        LET e == sec_log[k]
        IN  \A p \in OtherChannelPairs(e) :
                /\ ScopedId(p[1], p[2]) \in e.allow_after
                       <=> ScopedId(p[1], p[2]) \in e.allow_before
                /\ ScopedId(p[1], p[2]) \in e.pending_after
                       <=> ScopedId(p[1], p[2]) \in e.pending_before
                /\ CheckAccessResult(policy, e.allow_after, p[1], p[2])
                       = CheckAccessResult(policy, e.allow_before, p[1], p[2])

\* C16: deny removes the scoped id from pending and leaves the allow-set as
\* it was; revoke removes it from the allow-set and leaves pending as it
\* was; no other scoped id changes membership.
C16_DenyRevokeFrame ==
    \A k \in 1..Len(sec_log) :
        LET e == sec_log[k]
        IN  /\ e.op = "deny" =>
                   /\ e.pending_after = e.pending_before \ {ScopedOf(e)}
                   /\ e.allow_after = e.allow_before
            /\ e.op = "revoke" =>
                   /\ e.allow_after = e.allow_before \ {ScopedOf(e)}
                   /\ e.pending_after = e.pending_before

\* A pending sender was denied, and an allowed sender was revoked while
\* another one was pending.
C16_Witness ==
    \E k \in 1..Len(sec_log), l \in 1..Len(sec_log) :
        /\ sec_log[k].op = "deny"
        /\ ScopedOf(sec_log[k]) \in sec_log[k].pending_before
        /\ sec_log[l].op = "revoke"
        /\ ScopedOf(sec_log[l]) \in sec_log[l].allow_before
        /\ sec_log[l].pending_before # {}

\* C17, as stated: of the send_text calls for a response, the first carries
\* the original message's reply-target id and the calls for chunks 2..k carry
\* no reply-target.
C17_ReplyTargetFirstOnly ==
    \A i \in Ids :
        \A k \in 1..Len(h[i].sends) :
            h[i].sends[k].call.reply_to_id =
                IF k = 1 THEN h[i].msg.reply_to_id ELSE NoneVal

\* C18: send_text is called once per chunk, in chunk order, whatever the
\* earlier calls did: the calls made so far are for the first chunks, and an
\* invocation that has returned has made a call for every chunk.
C18_EveryChunkSent ==
    \A i \in Ids :
        /\ Len(h[i].sends) <= Len(h[i].chunks)
        /\ SentTexts(i) = SubSeq(h[i].chunks, 1, Len(h[i].sends))
        /\ h[i].pc = "done" => Len(h[i].sends) = Len(h[i].chunks)
        /\ h[i].pc = "send" => Len(h[i].sends) < Len(h[i].chunks)

\* An invocation has returned after two send_text calls of which the first
\* failed.
C18_Witness ==
    \E i \in Ids :
        /\ h[i].pc = "done"
        /\ Len(h[i].chunks) = 2
        /\ Len(h[i].sends) = 2
        /\ ~h[i].sends[1].ok

\* C19, as stated: an admitted message without media is handed to the
\* debouncer and is not dispatched while the timer its enqueue scheduled is
\* still pending; an admitted message with media is handled within the
\* process call, alone, without a buffer entry and without a timer.
C19_DebounceDecision ==
    \A n \in Ids :
        Passed(n) =>
            IF n \in enq
                THEN \A i \in Ids :
                         (n \in IdsOf(i) /\ Len(h[i].calls) > 0) =>
                             /\ h[i].origin \in {"timer", "flush_all"}
                             /\ h[i].msg.media = <<>>
                             /\ ~Live(n)
                ELSE /\ h[n].pc # "none"
                     /\ h[n].origin = "process"
                     /\ h[n].ids = <<n>>
                     /\ h[n].msg.media # <<>>
                     /\ n \notin BufferedIds
                     /\ timers[n].state = "none"

\* The chunks chunk_text returned for ck_in.
Chunks == ck_out[1]

\* C20: for every text and every limit >= 1, in TEXT and in MARKDOWN mode,
\* every element of chunk_text(text, limit, mode) has length <= limit,
\* the re-fenced fragments of a force-split code block included.
C20_NoChunkOverLimit ==
    ck_out # <<>> =>
        \A k \in 1..Len(Chunks) : Len(Chunks[k]) <= ck_in.limit

\* MARKDOWN mode split a code block that alone exceeds the limit, and one of
\* the chunks is a fragment of it between re-applied fences.
C20_Witness ==
    /\ ck_out # <<>>
    /\ ck_in.mode = "markdown"
    /\ Len(FenceMatch(ck_in.text)) > 0
    /\ Len(ck_in.text) > ck_in.limit
    /\ \E k \in 1..Len(Chunks) :
           LET c == Chunks[k]
               f == FenceMatch(ck_in.text)
           IN  /\ Len(c) > 2 * Len(f) + 2
               /\ StartsWith(c, f \o <<NL>>)
               /\ SubSeq(c, Len(c) - Len(f), Len(c)) = <<NL>> \o f
    /\ \E k \in 1..Len(Chunks) : Len(FenceMatch(Chunks[k])) = 0

\* s with its whitespace characters removed.
NonBlank(s) == SelectSeq(s, LAMBDA c : c \notin Whitespace)

\* chunk_text was applied in TEXT mode to a non-empty text.
PlainApplied == ck_out # <<>> /\ ck_in.mode = "text" /\ Len(ck_in.text) > 0

\* C21: in plain mode, for every non-empty text and limit >= 1, the
\* concatenation of the chunks equals the input once whitespace is ignored
\* on both sides, and equals the input exactly when the input holds no
\* whitespace.
C21_PlainKeepsContent ==
    PlainApplied =>
        /\ NonBlank(Flatten(Chunks)) = NonBlank(ck_in.text)
        /\ NonBlank(ck_in.text) = ck_in.text => Flatten(Chunks) = ck_in.text

\* Plain mode cut a text in several chunks and trimmed whitespace at a cut.
C21_Witness ==
    /\ PlainApplied
    /\ Len(Chunks) >= 2
    /\ Len(Flatten(Chunks)) < Len(ck_in.text)
    /\ Len(NonBlank(ck_in.text)) >= 2

\* chunk_text was applied in MARKDOWN mode.
MarkdownApplied == ck_out # <<>> /\ ck_in.mode = "markdown"

\* b occurs in c as a run of consecutive characters.
IsInfix(b, c) ==
    \E a \in 0..(Len(c) - Len(b)) : SubSeq(c, a + 1, a + Len(b)) = b

\* The line is a closing fence for an opening fence of character ch: apart
\* from surrounding whitespace, a run of three or more ch.
IsClosingFence(line, ch) ==
    LET stripped == Strip(line)
    IN  Len(stripped) >= 3 /\ stripped = Repeat(ch, Len(stripped))

RECURSIVE FencedFrom(_, _)
\* The complete fenced code blocks among lines i.. of a text: from a line
\* that opens with a fence through the first later closing fence of the same
\* character.
FencedFrom(lines, i) ==
    IF i > Len(lines) THEN {}
    ELSE LET fm == FenceMatch(lines[i])
         IN  IF Len(fm) = 0 THEN FencedFrom(lines, i + 1)
             ELSE LET closers == {j \in (i + 1)..Len(lines) :
                                      IsClosingFence(lines[j], fm[1])}
                  IN  IF closers = {} THEN {}
                      ELSE LET j == Min(closers)
                           IN  {JoinWith(<<NL>>, SubSeq(lines, i, j - 1)
                                    \o <<RStrip(lines[j])>>)}
                                   \cup FencedFrom(lines, j + 1)

\* The complete fenced code blocks of a text.
FencedBlocks(text) == FencedFrom(Split(text, NL), 1)

\* C22: in MARKDOWN mode every complete fenced code block of the input
\* (opening fence through its matching closing fence) whose length is
\* <= limit appears whole inside a single output chunk.
C22_FittingBlockKeptWhole ==
    MarkdownApplied =>
        \A b \in FencedBlocks(ck_in.text) :
            Len(b) <= ck_in.limit =>
                \E k \in 1..Len(Chunks) : IsInfix(b, Chunks[k])

\* MARKDOWN mode was applied to a text that is one fenced code block longer
\* than the limit, so that every chunk is a fragment of that block.
OversizedBlockSplit ==
    /\ MarkdownApplied
    /\ Len(ck_in.text) > ck_in.limit
    /\ Len(FenceMatch(ck_in.text)) > 0
    /\ SplitIntoBlocks(ck_in.text) = <<ck_in.text>>

\* The last line of a chunk is a closing fence of character ch.
EndsWithFence(c, ch) ==
    LET lines == Split(c, NL)
    IN  IsClosingFence(lines[Len(lines)], ch)

\* C23: when MARKDOWN chunking splits a code block that alone exceeds the
\* limit, every emitted fragment of the block starts with the block's fence
\* header (fence and language tag) and ends with a closing fence of the same
\* character, for every limit >= 1.
C23_FragmentsFenced ==
    OversizedBlockSplit =>
        LET header == Split(ck_in.text, NL)[1]
            ch     == FenceMatch(ck_in.text)[1]
        IN  \A k \in 1..Len(Chunks) :
                /\ StartsWith(Chunks[k], header)
                /\ EndsWithFence(Chunks[k], ch)

\* The 0-based positions >= from at which sep lies wholly inside the first
\* limit characters of remaining.
Boundaries(remaining, limit, sep, from) ==
    {i \in from..(Min({limit, Len(remaining)}) - Len(sep)) :
         SubSeq(remaining, i + 1, i + Len(sep)) = sep}

\* The cut the break priority asks for, boundaries counted from position
\* from on: right after the last paragraph boundary, else right after the
\* last newline, else right after the last space, else at limit.
PriorityCut(remaining, limit, from) ==
    LET para  == Boundaries(remaining, limit, <<NL, NL>>, from)
        line  == Boundaries(remaining, limit, <<NL>>, from)
        space == Boundaries(remaining, limit, <<" ">>, from)
    IN  IF para # {} THEN Max(para) + 2
        ELSE IF line # {} THEN Max(line) + 1
        ELSE IF space # {} THEN Max(space) + 1
        ELSE limit

RECURSIVE PriorityChunks(_, _, _)
\* The chunks of a text cut at PriorityCut each time, each chunk without its
\* trailing and each remainder without its leading whitespace.
PriorityChunks(remaining, limit, from) ==
    IF Len(remaining) = 0 THEN <<>>
    ELSE IF Len(remaining) <= limit THEN <<remaining>>
    ELSE LET cut  == PriorityCut(remaining, limit, from)
             rest == SubSeq(remaining, cut + 1, Len(remaining))
         IN  <<RStrip(SubSeq(remaining, 1, cut))>>
               \o PriorityChunks(LStrip(rest), limit, from)

Events(ev) == {p \in 1..Len(pa.log) : pa.log[p].ev = ev}

\* The attachment's MIME type matches no glob pattern of the allow-list.
NoPatternMatches(att) ==
    \A n \in 1..Len(mproc.allowed_types) :
        ~FnMatch(att.mime_type, mproc.allowed_types[n])

\* The attachment's size is known and greater than the configured maximum.
KnownTooBig(att) ==
    att.file_size # NoSize /\ att.file_size > mproc.max_file_size_bytes

\* C25: validate raises the media-rejection error exactly when the
\* attachment's MIME type matches no glob pattern of the allow-list, or its
\* file size is known and greater than the configured maximum; with an
\* allowed MIME type and a size unknown or <= the maximum it passes.
C25_ValidateRule ==
    \A p \in Events("validate") :
        LET k   == pa.log[p].k
            att == pa.attachments[k]
            bad == NoPatternMatches(att) \/ KnownTooBig(att)
        IN  /\ pa.log[p].arg = ~bad
            /\ bad => /\ p < Len(pa.log)
                      /\ pa.log[p + 1]
                             = PaEvent("skipped", k, "MediaValidationError")
            /\ ~bad => ~(p < Len(pa.log) /\ pa.log[p + 1].ev = "skipped")

\* validate refused an attachment of an allowed type for its declared size
\* and passed one whose size is unknown.
C25_Witness ==
    /\ \E p \in Events("validate") :
           /\ ~pa.log[p].arg
           /\ ~NoPatternMatches(pa.attachments[pa.log[p].k])
    /\ \E p \in Events("validate") :
           /\ pa.log[p].arg
           /\ pa.attachments[pa.log[p].k].file_size = NoSize

\* validate fails for the k-th attachment.
FailsValidate(k) ==
    NoPatternMatches(pa.attachments[k]) \/ KnownTooBig(pa.attachments[k])

\* C26: download runs validate before the adapter's download_file, and for
\* an attachment that fails validate download_file is never invoked.
C26_ValidateBeforeDownload ==
    /\ \A p \in Events("download_file") :
           /\ pa.log[p].arg = pa.attachments[pa.log[p].k].file_id
           /\ \E q \in 1..(p - 1) :
                  pa.log[q] = PaEvent("validate", pa.log[p].k, TRUE)
    /\ \A k \in 1..Len(pa.attachments) :
           FailsValidate(k) =>
               \A p \in Events("download_file") : pa.log[p].k # k

\* The call returned; the first attachment failed validate and was not
\* asked of the adapter, the second passed and was.
C26_Witness ==
    /\ pa.pc = "returned"
    /\ Len(pa.attachments) = 2
    /\ FailsValidate(1)
    /\ \E p \in Events("validate") : pa.log[p].k = 1
    /\ \E p \in Events("download_file") : pa.log[p].k = 2

\* The last entry of the call's history after the step.
LastLogged == pa'.log[Len(pa'.log)]

\* C27: download re-checks the size on the bytes retrieved: it returns
\* (bytes, mime_type) only when their number is <= the configured maximum
\* and raises the media-rejection error otherwise, whatever size the
\* attachment declared.
C27_SizeRecheckedOnBytes ==
    [][/\ pa'.pc = "to_adk_part" =>
              /\ pa.pc = "post_check"
              /\ pa.data.size <= mproc.max_file_size_bytes
              /\ pa'.data = pa.data
              /\ LastLogged = PaEvent("downloaded", pa.i, pa.data.size)
       /\ pa.pc = "post_check" /\ pa.data.size > mproc.max_file_size_bytes =>
              /\ LastLogged = PaEvent("skipped", pa.i, "MediaValidationError")
              /\ pa'.parts = pa.parts]_vars

\* An attachment of unknown size passed validate, the adapter returned more
\* bytes than the maximum, and the attachment was rejected.
C27_Witness ==
    \E p \in Events("skipped") :
        LET k == pa.log[p].k
        IN  /\ pa.log[p].arg = "MediaValidationError"
            /\ pa.attachments[k].file_size = NoSize
            /\ p > 1
            /\ pa.log[p - 1] = PaEvent("download_file", k, FileId(k))

\* The attachments whose validation, retrieval and conversion all succeeded:
\* validate passed, download returned the bytes, and nothing was caught.
Succeeded ==
    {k \in 1..Len(pa.attachments) :
         /\ PaEvent("validate", k, TRUE) \in {pa.log[p] : p \in Events("validate")}
         /\ \E p \in Events("downloaded") : pa.log[p].k = k
         /\ \A p \in Events("skipped") : pa.log[p].k # k}

\* The sizes of the bytes download returned for attachment k.
ReturnedSize(k) ==
    LET p == CHOOSE q \in Events("downloaded") : pa.log[q].k = k
    IN  pa.log[p].arg

\* The n-th smallest element of a set of numbers.
Nth(S, n) == CHOOSE x \in S : Cardinality({y \in S : y <= x}) = n

\* C28: process_attachments never raises, and returns, in input order,
\* exactly one part for each attachment whose validation, retrieval and
\* conversion succeeded; a failing attachment neither aborts the batch nor
\* keeps the attachments after it from being processed.
C28_BatchIndependent ==
    /\ pa.pc # "raised"
    /\ pa.pc = "returned" =>
           /\ \A k \in 1..Len(pa.attachments) :
                  \E p \in Events("validate") : pa.log[p].k = k
           /\ Len(pa.parts) = Cardinality(Succeeded)
           /\ \A n \in 1..Len(pa.parts) :
                  pa.parts[n].size = ReturnedSize(Nth(Succeeded, n))

\* The call returned one part: the first attachment's download raised in
\* the adapter, the second attachment went through.
C28_Witness ==
    /\ pa.pc = "returned"
    /\ Len(pa.attachments) = 2
    /\ PaEvent("skipped", 1, "Exception") \in {pa.log[p] : p \in Events("skipped")}
    /\ Succeeded = {2}
    /\ Len(pa.parts) = 1

\* The message of a set with the n-th smallest message_id.
ByOrdinal(S, n) ==
    CHOOSE m \in S :
        Cardinality({x \in S : x.raw.message_id <= m.raw.message_id}) = n

\* The messages a flush combined, as a set.
FlushedFrom(f) == {mgb.flushed[f].from[k] : k \in 1..Len(mgb.flushed[f].from)}

\* C29: whatever order the messages of one group id arrived in, the flushed
\* message has their media concatenated in ascending order of message_id
\* and takes text and all other metadata from the message with the lowest
\* message_id.
C29_FlushOrderIndependent ==
    \A f \in 1..Len(mgb.flushed) :
        LET S   == FlushedFrom(f)
            msg == mgb.flushed[f].msg
        IN  /\ msg.media
                   = Flatten([n \in 1..Cardinality(S) |-> ByOrdinal(S, n).media])
            /\ [msg EXCEPT !.media = <<>>]
                   = [ByOrdinal(S, 1) EXCEPT !.media = <<>>]

\* The whole album was flushed at once after arriving in descending order of
\* message_id.
C29_Witness ==
    \E f \in 1..Len(mgb.flushed) :
        LET from == mgb.flushed[f].from
        IN  /\ Len(from) = MaxGroupMessages
            /\ \A k \in 1..(Len(from) - 1) :
                   from[k].raw.message_id > from[k + 1].raw.message_id
            /\ mgb.flushed[f].msg.media[1].file_id = FileId(1)

\* The lines of the input that open with a fence.
FenceLines(text) ==
    LET lines == Split(text, NL)
    IN  {i \in 1..Len(lines) : Len(FenceMatch(lines[i])) > 0}

\* The first fence of the input is never closed: no later line consists of
\* its fence character only.
Unterminated(text) ==
    /\ FenceLines(text) # {}
    /\ LET lines == Split(text, NL)
           i     == Min(FenceLines(text))
           ch    == lines[i][1]
       IN  \A j \in (i + 1)..Len(lines) :
               LET stripped == Strip(lines[j])
               IN  ~(Len(stripped) > 0 /\ stripped = Repeat(ch, Len(stripped)))

\* The unterminated block: the input from its opening fence on.
OpenBlock(text) ==
    LET lines == Split(text, NL)
    IN  JoinWith(<<NL>>, SubSeq(lines, Min(FenceLines(text)), Len(lines)))

RECURSIVE IsSubsequence(_, _)
\* The characters of a occur in b, in order.
IsSubsequence(a, b) ==
    IF Len(a) = 0 THEN TRUE
    ELSE IF Len(b) = 0 THEN FALSE
    ELSE IF a[1] = b[1] THEN IsSubsequence(Tail(a), Tail(b))
    ELSE IsSubsequence(a, Tail(b))

\* C30: for a MARKDOWN-mode input over the limit whose code fence is never
\* closed, chunking completes and nothing of the unterminated block is
\* lost: the characters of its lines, whitespace aside, all appear in the
\* output chunks, in order.
C30_OpenFenceRecovered ==
    MarkdownApplied /\ Len(ck_in.text) > ck_in.limit /\ Unterminated(ck_in.text)
        => IsSubsequence(NonBlank(OpenBlock(ck_in.text)),
                         NonBlank(Flatten(Chunks)))

\* C31: in both modes chunk_text returns the empty list for empty input,
\* and for every non-empty text of length <= limit the one-element list
\* holding the input unchanged.
C31_EmptyAndFitting ==
    ck_out # <<>> =>
        /\ Len(ck_in.text) = 0 => Chunks = <<>>
        /\ Len(ck_in.text) > 0 /\ Len(ck_in.text) <= ck_in.limit
               => Chunks = <<ck_in.text>>

\* MARKDOWN mode returned, as it is, a fitting text that has whitespace
\* around it.
C31_Witness ==
    /\ MarkdownApplied
    /\ Len(ck_in.text) > 0
    /\ Len(ck_in.text) <= ck_in.limit
    /\ Strip(ck_in.text) # ck_in.text
    /\ Len(Strip(ck_in.text)) > 0
    /\ Chunks = <<ck_in.text>>

\* C35: for every text and limit >= 1, in both modes, no chunk that
\* chunk_text returns is the empty string.
C35_NoEmptyChunk ==
    ck_out # <<>> => \A k \in 1..Len(Chunks) : Len(Chunks[k]) > 0

\* C36: chunk_text terminates for every text and every limit >= 1 in both
\* modes: every pass of the plain-mode loop that cuts leaves a remainder
\* shorter by at least one character, also with the inner limit of a
\* force-split code block, and the loop returns.
C36_LoopTerminates ==
    /\ [][lp.pc = "while" /\ lp'.pc = "while"
              => Len(lp'.remaining) < Len(lp.remaining)]_vars
    /\ <>(lp.pc = "return")

\* The loop returned after several cuts on the body of a code block whose
\* inner limit was raised to the floor.
C36_Witness ==
    /\ lp.pc = "return"
    /\ Len(lp.chunks) >= 2
    /\ lp.limit = MinInnerLimit
    /\ lp.call.limit = MinInnerLimit
    /\ Len(lp.call.remaining) > MinInnerLimit


\* Update 1 is the only message the pipeline has been given, it carried no
\* media, and the invocation of the flush callback handling it has returned.
SingleTextDone ==
    /\ policy = "open"
    /\ nextId = 2
    /\ enq = {1}
    /\ h[1].pc = "done"

\* C32, as stated: a single text-only message through an open-policy pipeline
\* causes exactly one dispatch call, with the message text and an empty list
\* of media parts, and, when the returned response fits the chunk limit,
\* exactly one send_text call carrying exactly that response text.
C32_SingleTextEndToEnd ==
    SingleTextDone =>
        /\ Len(h[1].calls) = 1
        /\ h[1].calls[1].text = UpdateText(1)
        /\ h[1].calls[1].media_parts = <<>>
        /\ (h[1].dispatch = "returned" /\ Len(h[1].response) <= chunk_limit)
               => (Len(h[1].sends) = 1 /\ SentTexts(1)[1] = h[1].response)

\* The same statement for the answers that are not blank, used to locate
\* the failure.
C32_NonBlankAnswer ==
    SingleTextDone =>
        /\ Len(h[1].calls) = 1
        /\ h[1].calls[1].text = UpdateText(1)
        /\ h[1].calls[1].media_parts = <<>>
        /\ (/\ h[1].dispatch = "returned"
            /\ Len(h[1].response) <= chunk_limit
            /\ h[1].response # <<>>)
               => (Len(h[1].sends) = 1 /\ SentTexts(1)[1] = h[1].response)


\* The debounce delay of update n has not yet elapsed since its enqueue: the
\* handle scheduled by that enqueue is still pending with time left.
DelayRunning(n) == Live(n) /\ timers[n].left > 0

\* C33, as stated: outside flush_all, a message is flushed only when the full
\* debounce delay has elapsed since the most recent enqueue for its key, so
\* no invocation started by a timer holds a message whose own delay is still
\* running.
C33_FlushOnlyAfterSilence ==
    \A i \in Ids, n \in Ids :
        (n \in IdsOf(i) /\ h[i].origin = "timer") => ~DelayRunning(n)


\* The invocations of the flush callback that were handed update n.
FlushesOf(n) == {i \in Ids : n \in IdsOf(i)}

\* C34: with a flush callback set, every message accepted by enqueue is
\* included in exactly one invocation of the flush callback: never in two,
\* and, when time passes and due timers and scheduled tasks run, eventually
\* in one.
C34_FlushedExactlyOnce ==
    /\ [](\A n \in enq : Cardinality(FlushesOf(n)) <= 1)
    /\ \A n \in Ids : (n \in enq) ~> (Cardinality(FlushesOf(n)) = 1)

\* Messages were flushed by a timer together, by a timer alone and by
\* flush_all, each once.
C34_Witness ==
    /\ enq = 1..MaxDebUpdates
    /\ \A n \in enq : Cardinality(FlushesOf(n)) = 1
    /\ \E i \in Ids : h[i].origin = "timer" /\ Len(h[i].ids) > 1
    /\ \E i \in Ids : h[i].origin = "flush_all"


\* C37: the allow-set and the pending set of a DmPolicyEnforcer are disjoint
\* in every reachable state, whatever the initial allow-list, the mode and the
\* sequence of check_access, approve, deny and revoke.
C37_AllowPendingDisjoint == allow_from \cap pending = {}

\* Both sets are inhabited, and one sender went from pending to allowed by
\* an approve.
C37_Witness ==
    /\ allow_from # {}
    /\ pending # {}
    /\ \E k \in 1..Len(sec_log) :
           /\ sec_log[k].op = "approve"
           /\ ScopedOf(sec_log[k]) \in sec_log[k].pending_before


\* C38, as stated: every media part process_attachments delivers has a MIME
\* type that matches the configured allow-list, the one validate applied to
\* the attachment.
C38_PartsMimeAllowed ==
    \A n \in 1..Len(pa.parts) :
        IsMimeAllowed(mproc.allowed_types, pa.parts[n].mime_type)


\* C39, as stated: in the Telegram wiring an update from a sender for whom
\* check_access returns not allowed never causes an orchestrator call, a
\* memory-store read or delete, or an outbound message, whether it is a plain
\* message, part of a media group (no invocation of the pipeline's handler
\* ever holds it) or a bot command (the command handler makes no call).
C39_GateCoversEveryPath ==
    /\ \A n \in Ids : Denied(n) => \A i \in Ids : n \notin IdsOf(i)
    /\ \A k \in 1..Len(tg.commands) :
           ~Admitted(tg.commands[k].access) => tg.commands[k].calls = <<>>

\* The part of C39 about plain messages and media groups.
C39_GateCoversMessages ==
    \A n \in Ids : Denied(n) => \A i \in Ids : n \notin IdsOf(i)


\* The (channel, chat_id, sender_id) of admitted update n: recorded at its
\* enqueue, or that of the invocation process started for it.
TripleOf(n) ==
    IF n \in enq THEN ident[n]
    ELSE <<h[n].msg.channel, h[n].msg.chat_id, h[n].msg.sender_id>>

\* Update n is still to be dispatched: it waits in the debounce buffer, or
\* its invocation has not reached the call of dispatch_fn.
AwaitingDispatch(n) ==
    \/ n \in BufferedIds
    \/ \E i \in Ids : n \in IdsOf(i) /\ h[i].pc = "resolve"

\* C40, as stated: for two admitted messages of the same (channel, chat_id,
\* sender_id), the one passed to process() later is never dispatched to the
\* responder before the one passed earlier, with or without media.
C40_DispatchInArrivalOrder ==
    \A n \in Ids, m \in Ids :
        (/\ n < m
         /\ Passed(n)
         /\ Passed(m)
         /\ TripleOf(n) = TripleOf(m)
         /\ Dispatched(m)) => ~AwaitingDispatch(n)

====
